---- MODULE Spec2Model ----
(***************************************************************************)
(* UnifyCR / UnifyFS: the write-coalescing segment tree                    *)
(* (common/src/seg_tree.c).                                                *)
(*                                                                         *)
(* The red-black tree of tree.h is modelled by the set of its nodes.  The  *)
(* tree is ordered by compare_func, under which two overlapping ranges     *)
(* compare equal; which of several equal nodes a lookup meets first        *)
(* depends on the shape of the tree, so it is a nondeterministic choice.   *)
(*                                                                         *)
(* start, end and ptr are unsigned long in the source.  The model keeps    *)
(* the width: all offset arithmetic is modulo ULONG_SPAN = MaxOffset + 1,  *)
(* a scaled-down 2^64.  The long parameters of get_non_overlapping_range   *)
(* are converted back to unsigned long in every comparison they take part  *)
(* in (usual arithmetic conversions), so the same modulus applies.         *)
(***************************************************************************)
EXTENDS Integers, Sequences, FiniteSets, TLC

\* Largest offset (ULONG_MAX, scaled down).
MaxOffset == 3
\* Number of seg_tree_add calls explored since init or the last clear.
MaxAdds == 3
\* Largest index of an allocation of one call that the environment may fail.
MaxFailAt == 3

ULONG_SPAN == MaxOffset + 1
Offsets == 0 .. MaxOffset
\* Physical log offsets handed to seg_tree_add.
Ptrs == {0, 2}

VARIABLES
    head,     \* seg_tree->head: the set of nodes of the tree
    count,    \* seg_tree->count
    max,      \* seg_tree->max
    rwlock,   \* seg_tree->rwlock: "unlocked" or "wrlocked"
    op,       \* the last call: its name, arguments and result
    found,    \* node returned by the last seg_tree_find_nolock
    yielded,  \* nodes returned by the last seg_tree_iter traversal, in order
    written,  \* history: per byte offset, the physical offset of the last
              \* successful add that covered it since init/clear (-1: none)
    nadds     \* history: seg_tree_add calls since init or the last clear

\* The callers of one shared tree, each a thread of the process.
Threads == {1, 2}

VARIABLES
    pc,       \* per thread: where it is in the call it is making
    local,    \* per thread: the arguments, locals and result of its call
    wrholder, \* the thread that holds rwlock for writing, 0 if none
    readers   \* the threads that hold rwlock for reading

thrvars == <<pc, local, wrholder, readers>>

VARIABLES
    region,       \* the client's index region in shared memory: raw entries
    attr_region,  \* the client's attribute region in shared memory
    extents,      \* the extent index of the key-value store, unifycr_indexes[0]
    fattrs,       \* the attribute index of the store, unifycr_indexes[1]
    del_req_set,  \* the caller's msg_meta_t that meta_batch_get fills
    attr_val,     \* the caller's record that unifycr_get_file_attribute fills
    mop,          \* the last call into the metadata service and its result
    unifycr_keys, \* the global key buffer of unifycr_metadata.c
    primary_index,\* md->primary_index: 0 the extent index, 1 the attribute index
    bgrm          \* the global reply-chain pointer of unifycr_metadata.c

metavars == <<region, attr_region, extents, fattrs, del_req_set, attr_val,
              mop, unifycr_keys, primary_index, bgrm>>

VARIABLES
    cmp_keys,     \* the keys the store hands to its comparator
    cmp_ret       \* what unifycr_key_compare returned for each pair of them

keyvars == <<cmp_keys, cmp_ret>>

VARIABLES
    files,        \* the mounted file system: what each name is
    fdtab,        \* the client's descriptor table: the name each fd is open on
    sysop         \* the last call on the file system, with what it returned

sysvars == <<files, fdtab, sysop>>

VARIABLES
    boundary      \* the adds around one byte: the byte, the pointers, the
                  \* adds made so far

VARIABLES
    range_call    \* one call of get_non_overlapping_range: its arguments,
                  \* and what it returned and left in new_start / new_end


\* What the calls on the one tree of a single caller leave alone.
notSegTree == <<thrvars, metavars, keyvars, sysvars>>

vars == <<head, count, max, rwlock, op, found, yielded, written, nadds,
          thrvars, metavars, keyvars, sysvars, boundary, range_call>>

Wrap(x) == x % ULONG_SPAN

NULL == [start |-> -1, end |-> -1, ptr |-> -1]

MIN(a, b) == IF a < b THEN a ELSE b
MAX(a, b) == IF a > b THEN a ELSE b

\* compare_func with <= for <: ranges that share one byte compare as disjoint.
compare_func_touching(node1, node2) ==
    IF node1.start > node2.end THEN 1
    ELSE IF node1.end <= node2.start THEN -1
    ELSE 0

compare_func(node1, node2) ==
    IF node1.start > node2.end THEN 1
    ELSE IF node1.end < node2.start THEN -1
    ELSE 0

seg_tree_node_alloc(start, end, ptr) ==
    [start |-> start, end |-> end, ptr |-> ptr]

(***************************************************************************)
(* tree.h, instantiated by RB_GENERATE(inttree, seg_tree_node, entry,      *)
(* compare_func), on the set of nodes.                                     *)
(***************************************************************************)
\* The nodes RB_INSERT / RB_FIND may stop at: those that compare equal to elm.
RB_EQUAL(T, elm) == {n \in T : compare_func(elm, n) = 0}

\* RB_INSERT whose result is ignored: elm is linked only if nothing compares
\* equal to it.
RB_INSERT(T, elm) == IF RB_EQUAL(T, elm) = {} THEN T \cup {elm} ELSE T

RB_REMOVE(T, elm) == T \ {elm}

RB_EMPTY(T) == T = {}

\* The nodes in tree order.  Every node was linked where compare_func put
\* it, so the order of the tree is the order of the start offsets.
Leftmost(S) == CHOOSE n \in S : \A m \in S : n.start <= m.start

RB_MIN(T) == IF T = {} THEN NULL ELSE Leftmost(T)

\* In-order successor of a node of the tree.
RB_NEXT(T, elm) ==
    LET after == {n \in T : n.start > elm.start} IN
    IF after = {} THEN NULL ELSE Leftmost(after)

\* Some node that compares equal to elm, NULL if there is none.  In a tree
\* of disjoint nodes the only node that compares equal to a node of the
\* tree is that node.
RB_FIND(T, elm) ==
    IF RB_EQUAL(T, elm) = {} THEN NULL
    ELSE CHOOSE n \in RB_EQUAL(T, elm) : TRUE

\* Least node that does not compare below elm.
RB_NFIND(T, elm) ==
    LET notless == {n \in T : compare_func(elm, n) <= 0} IN
    IF notless = {} THEN NULL ELSE Leftmost(notless)

(***************************************************************************)
(* get_non_overlapping_range: rc, and new_start / new_end as left by the   *)
(* call (the caller's values when no branch writes them).                  *)
(***************************************************************************)
\* get_non_overlapping_range with == for >= in the test of line 102.
get_non_overlapping_range_same_start(start1, end1, start2, end2, new_start, new_end) ==
    IF start1 = start2 /\ end1 <= end2
    THEN [rc |-> 1, new_start |-> new_start, new_end |-> new_end]
    ELSE IF start1 < start2
    THEN [rc |-> 0, new_start |-> start1,
          new_end |-> MIN(end1, Wrap(start2 - 1))]
    ELSE IF start1 > start2 /\ end1 > end2
    THEN [rc |-> 0, new_start |-> MAX(start1, Wrap(end2 + 1)),
          new_end |-> end1]
    ELSE IF start1 = start2 /\ end1 > end2
    THEN [rc |-> 0, new_start |-> Wrap(end2 + 1), new_end |-> end1]
    ELSE [rc |-> 0, new_start |-> new_start, new_end |-> new_end]

get_non_overlapping_range(start1, end1, start2, end2, new_start, new_end) ==
    IF start1 >= start2 /\ end1 <= end2
    THEN [rc |-> 1, new_start |-> new_start, new_end |-> new_end]
    ELSE IF start1 < start2
    THEN [rc |-> 0, new_start |-> start1,
          new_end |-> MIN(end1, Wrap(start2 - 1))]
    ELSE IF start1 > start2 /\ end1 > end2
    THEN [rc |-> 0, new_start |-> MAX(start1, Wrap(end2 + 1)),
          new_end |-> end1]
    ELSE IF start1 = start2 /\ end1 > end2
    THEN [rc |-> 0, new_start |-> Wrap(end2 + 1), new_end |-> end1]
    ELSE [rc |-> 0, new_start |-> new_start, new_end |-> new_end]

(***************************************************************************)
(* seg_tree_add.  Allocations of one call are numbered 1, 2, ... in the    *)
(* order they are made; failAt is the one calloc fails (0: none).  ls is   *)
(* the state of the call inside the while loop: the tree, count, the       *)
(* locals new_start / new_end and the number of allocations made so far.   *)
(* The loop yields the set of results the call can end with, one for each  *)
(* choice of the overlapping node RB_INSERT returns.                       *)
(***************************************************************************)
AllocFails(ls, failAt) == failAt = ls.nalloc + 1

\* Lines 186-207: resized was allocated; the old range is replaced by it
\* and, when a section of the old range remains after it, by that section.
RECURSIVE add_loop(_, _, _)
\* add_split that never links the section that remains after resized.
add_split_drop_remaining(ls, node, overlap, failAt) ==
    LET resized == seg_tree_node_alloc(ls.new_start, ls.new_end,
                       Wrap(overlap.ptr + (ls.new_start - overlap.start)))
        T1 == RB_INSERT(RB_REMOVE(ls.head, overlap), resized)
    IN  add_loop([ls EXCEPT !.head = T1, !.nalloc = ls.nalloc + 1],
                 node, failAt)

\* add_split that gives the resized node the old pointer unchanged.
add_split_same_ptr(ls, node, overlap, failAt) ==
    LET resized == seg_tree_node_alloc(ls.new_start, ls.new_end,
                       overlap.ptr)
        T1 == RB_INSERT(RB_REMOVE(ls.head, overlap), resized)
        l1 == [ls EXCEPT !.head = T1, !.nalloc = ls.nalloc + 1]
    IN  IF /\ Wrap(resized.end + 1) >= overlap.start
           /\ Wrap(resized.end + 1) <= overlap.end
        THEN IF AllocFails(l1, failAt)
             THEN \* remaining is NULL, the test reads resized, and
                  \* RB_INSERT dereferences the null node
                  {[head |-> T1, count |-> ls.count, rc |-> "SIGSEGV",
                    rwlock |-> "wrlocked"]}
             ELSE LET remaining ==
                          seg_tree_node_alloc(Wrap(resized.end + 1),
                              overlap.end,
                              Wrap(overlap.ptr
                                   + (Wrap(resized.end + 1) - overlap.start)))
                  IN  add_loop([l1 EXCEPT
                                   !.head = RB_INSERT(T1, remaining),
                                   !.count = ls.count + 1,
                                   !.nalloc = l1.nalloc + 1],
                               node, failAt)
        ELSE add_loop(l1, node, failAt)


add_split(ls, node, overlap, failAt) ==
    LET resized == seg_tree_node_alloc(ls.new_start, ls.new_end,
                       Wrap(overlap.ptr + (ls.new_start - overlap.start)))
        T1 == RB_INSERT(RB_REMOVE(ls.head, overlap), resized)
        l1 == [ls EXCEPT !.head = T1, !.nalloc = ls.nalloc + 1]
    IN  IF /\ Wrap(resized.end + 1) >= overlap.start
           /\ Wrap(resized.end + 1) <= overlap.end
        THEN IF AllocFails(l1, failAt)
             THEN \* remaining is NULL, the test reads resized, and
                  \* RB_INSERT dereferences the null node
                  {[head |-> T1, count |-> ls.count, rc |-> "SIGSEGV",
                    rwlock |-> "wrlocked"]}
             ELSE LET remaining ==
                          seg_tree_node_alloc(Wrap(resized.end + 1),
                              overlap.end,
                              Wrap(overlap.ptr
                                   + (Wrap(resized.end + 1) - overlap.start)))
                  IN  add_loop([l1 EXCEPT
                                   !.head = RB_INSERT(T1, remaining),
                                   !.count = ls.count + 1,
                                   !.nalloc = l1.nalloc + 1],
                               node, failAt)
        ELSE add_loop(l1, node, failAt)

\* Lines 166-208: one pass of the loop body for the node RB_INSERT returned.
add_body(ls, node, overlap, failAt) ==
    LET r == get_non_overlapping_range(overlap.start, overlap.end,
                 node.start, node.end, ls.new_start, ls.new_end)
        l0 == [ls EXCEPT !.new_start = r.new_start, !.new_end = r.new_end]
    IN  IF r.rc = 1
        THEN add_loop([l0 EXCEPT !.head = RB_REMOVE(ls.head, overlap),
                                 !.count = ls.count - 1],
                      node, failAt)
        ELSE IF AllocFails(l0, failAt)
        THEN \* return ENOMEM from inside the loop: no unlock
             {[head |-> ls.head, count |-> ls.count, rc |-> "ENOMEM",
               rwlock |-> "wrlocked"]}
        ELSE add_split(l0, node, overlap, failAt)

\* add_loop that extends the left neighbour over the new range when the
\* new range continues its mapping, instead of linking the new node.
add_loop_merge(ls, node, failAt) ==
    IF RB_EQUAL(ls.head, node) = {}
    THEN LET adj == {n \in ls.head :
                        /\ n.end + 1 = node.start
                        /\ Wrap(n.ptr + (node.start - n.start)) = node.ptr}
         IN  IF adj = {}
             THEN {[head |-> ls.head \cup {node}, count |-> ls.count + 1,
                    rc |-> "OK", rwlock |-> "unlocked"]}
             ELSE LET n == CHOOSE n \in adj : TRUE IN
                  {[head |-> (ls.head \ {n}) \cup
                                 {seg_tree_node_alloc(n.start, node.end,
                                                      n.ptr)},
                    count |-> ls.count, rc |-> "OK",
                    rwlock |-> "unlocked"]}
    ELSE UNION {add_body(ls, node, overlap, failAt) :
                    overlap \in RB_EQUAL(ls.head, node)}

\* add_loop without the count++ of line 211.
add_loop_no_count(ls, node, failAt) ==
    IF RB_EQUAL(ls.head, node) = {}
    THEN {[head |-> ls.head \cup {node}, count |-> ls.count,
           rc |-> "OK", rwlock |-> "unlocked"]}
    ELSE UNION {add_body(ls, node, overlap, failAt) :
                    overlap \in RB_EQUAL(ls.head, node)}

\* Lines 159-212: the while loop and the count++ that follows it.
add_loop(ls, node, failAt) ==
    IF RB_EQUAL(ls.head, node) = {}
    THEN {[head |-> ls.head \cup {node}, count |-> ls.count + 1,
           rc |-> "OK", rwlock |-> "unlocked"]}
    ELSE UNION {add_body(ls, node, overlap, failAt) :
                    overlap \in RB_EQUAL(ls.head, node)}

\* Line 214 without the MAX: max follows the last end.
add_max_last(mx, end) == end

\* Line 214: seg_tree->max = MAX(seg_tree->max, end).
add_max(mx, end) == MAX(mx, end)

\* The results of seg_tree_add(start, end, ptr) on the tree (T, cnt, mx).
seg_tree_add(T, cnt, mx, start, end, ptr, failAt) ==
    IF failAt = 1
    THEN {[head |-> T, count |-> cnt, max |-> mx, rc |-> "ENOMEM",
           rwlock |-> "unlocked"]}
    ELSE LET node == seg_tree_node_alloc(start, end, ptr)
             ls == [head |-> T, count |-> cnt, new_start |-> 0,
                    new_end |-> 0, nalloc |-> 1]
         IN  {[head |-> o.head, count |-> o.count, rc |-> o.rc,
               rwlock |-> o.rwlock,
               max |-> IF o.rc = "OK" THEN add_max(mx, end) ELSE mx] :
                  o \in add_loop(ls, node, failAt)}

(***************************************************************************)
(* seg_tree_find_nolock; allocFails: calloc of the search key returns NULL.*)
(***************************************************************************)
seg_tree_find_nolock(T, start, end, allocFails) ==
    IF allocFails THEN NULL
    ELSE LET node == seg_tree_node_alloc(start, start, 0)
             next == RB_NFIND(T, node)
         IN  IF next # NULL /\ next.start <= end THEN next ELSE NULL

(***************************************************************************)
(* seg_tree_iter, and the traversal loop of its header comment:            *)
(*   node = NULL; while ((node = seg_tree_iter(seg_tree, node))) ...       *)
(***************************************************************************)
\* seg_tree_iter with the test of line 291 inverted.
seg_tree_iter_inverted(T, start) ==
    IF start = NULL THEN RB_MIN(T)
    ELSE IF RB_FIND(T, start) # NULL THEN NULL
    ELSE RB_NEXT(T, start)

seg_tree_iter(T, start) ==
    IF start = NULL THEN RB_MIN(T)
    ELSE IF RB_FIND(T, start) = NULL THEN NULL
    ELSE RB_NEXT(T, start)

RECURSIVE iter_loop(_, _, _)
iter_loop(T, node, acc) ==
    LET next == seg_tree_iter(T, node) IN
    IF next = NULL THEN acc ELSE iter_loop(T, next, Append(acc, next))

\* The nodes a full traversal yields, in the order it yields them.
Traversal(T) == iter_loop(T, NULL, <<>>)

(***************************************************************************)
(* seg_tree_clear (and seg_tree_destroy, which only calls it).             *)
(***************************************************************************)
RECURSIVE clear_loop(_, _, _)
clear_loop(T, node, oldnode) ==
    LET next == seg_tree_iter(T, node)
        T1 == IF oldnode # NULL THEN RB_REMOVE(T, oldnode) ELSE T
    IN  IF next # NULL THEN clear_loop(T1, next, next) ELSE T1

\* seg_tree_clear without line 366.
seg_tree_clear_keeps_max(T, cnt, mx) ==
    IF RB_EMPTY(T)
    THEN [head |-> T, count |-> cnt, max |-> mx]
    ELSE [head |-> clear_loop(T, NULL, NULL), count |-> 0, max |-> mx]

seg_tree_clear(T, cnt, mx) ==
    IF RB_EMPTY(T)
    THEN [head |-> T, count |-> cnt, max |-> mx]
    ELSE [head |-> clear_loop(T, NULL, NULL), count |-> 0, max |-> 0]

seg_tree_destroy(T, cnt, mx) == seg_tree_clear(T, cnt, mx)

\* seg_tree_count and seg_tree_max: the field, read under the write lock.
seg_tree_count == count
seg_tree_max == max

(***************************************************************************)
(* The state machine: one tree, calls made one after another.  A call that *)
(* takes the lock can only run when the lock is free: a lock left held     *)
(* blocks every later call, and a crashed process makes none.              *)
(***************************************************************************)
\* A call as the caller sees it: its arguments, its result, and what
\* seg_tree_count returned right before it.
Call(name, start, end, ptr, failAt, rc) ==
    [name |-> name, start |-> start, end |-> end, ptr |-> ptr,
     failAt |-> failAt, rc |-> rc, count0 |-> count]

NoHistory == [x \in Offsets |-> -1]

\* The metadata service after meta_init_store: both indexes empty, no client
\* has written, no call has been made.
\* Global file ids that have attributes.
Gfids == {1, 2}
\* No value stored under a gfid.
NoAttr == [shape |-> "none"]
\* Slots of fattr_keys / fattr_key_lens (scaled down).
MAX_FILE_CNT_PER_NODE == 2

NoMetaCall == [name |-> "init", rc |-> "OK", fault |-> "none"]

MetaInit ==
    /\ region = <<>>
    /\ attr_region = <<>>
    /\ extents = <<>>
    /\ fattrs = [g \in Gfids |-> NoAttr]
    /\ del_req_set = [num |-> 0, msg_meta |-> <<>>]
    /\ attr_val = <<>>
    /\ mop = NoMetaCall
    /\ unifycr_keys = <<>>
    /\ primary_index = 0
    /\ bgrm = <<>>

\* A thread that is not inside a call.
NoCall == [name |-> "none", rc |-> "OK", value |-> 0, node |-> NULL,
           seen |-> <<>>, snap |-> {}]

\* No thread has called yet; pthread_rwlock_init leaves the lock free.
ThreadsIdle ==
    /\ pc = [t \in Threads |-> "idle"]
    /\ local = [t \in Threads |-> NoCall]
    /\ wrholder = 0
    /\ readers = {}

\* seg_tree_init: memset to zero, lock and tree initialised.
TreeInit ==
    /\ head = {}
    /\ count = 0
    /\ max = 0
    /\ rwlock = "unlocked"
    /\ op = [name |-> "init", start |-> 0, end |-> 0, ptr |-> 0,
             failAt |-> 0, rc |-> "OK", count0 |-> 0]
    /\ found = NULL
    /\ yielded = <<>>
    /\ written = NoHistory
    /\ nadds = 0

\* The comparator has not been called.
KeyIdle ==
    /\ cmp_keys = <<>>
    /\ cmp_ret = <<>>

\* The descriptors the client may have open at a time.
MaxFds == 2
Fds == 0 .. MaxFds - 1
\* path and dir_path of open_test.
Paths == {"path", "dir_path"}

\* The mount point is empty and the client has no file open.
SysIdle ==
    /\ files = [p \in Paths |-> "none"]
    /\ fdtab = [fd \in Fds |-> ""]
    /\ sysop = [name |-> "none"]

\* No add around a byte has been set up.
BoundaryIdle == boundary = <<>>

\* No call of get_non_overlapping_range on its own has been set up.
RangeIdle == range_call = <<>>

\* The process after start-up: the tree and the metadata service
\* initialised, no thread inside a call.
Init ==
    /\ TreeInit
    /\ ThreadsIdle
    /\ MetaInit
    /\ KeyIdle
    /\ SysIdle
    /\ BoundaryIdle
    /\ RangeIdle

\* The process is running and the tree has not been destroyed.
Alive == op.rc # "SIGSEGV" /\ op.name # "destroy"

\* seg_tree_find_nolock and seg_tree_iter change nothing in the tree: the
\* calls that can follow one are those that can follow the state it was
\* made in.  A run is therefore explored with its query as the last call.
NoQueryMade == op.name \notin {"find", "iter"}

Add(start, end, ptr, failAt) ==
    /\ Alive
    /\ NoQueryMade
    /\ nadds < MaxAdds
    /\ failAt = 1 \/ rwlock = "unlocked"
    /\ \E o \in seg_tree_add(head, count, max, start, end, ptr, failAt) :
          /\ head' = o.head
          /\ count' = o.count
          /\ max' = o.max
          /\ rwlock' = IF failAt = 1 THEN rwlock ELSE o.rwlock
          /\ op' = Call("add", start, end, ptr, failAt, o.rc)
          /\ written' = IF o.rc = "OK"
                        THEN [x \in Offsets |->
                                 IF start <= x /\ x <= end
                                 THEN Wrap(ptr + (x - start))
                                 ELSE written[x]]
                        ELSE written
    /\ found' = NULL
    /\ yielded' = <<>>
    /\ nadds' = nadds + 1
    /\ UNCHANGED notSegTree

Clear ==
    /\ Alive
    /\ NoQueryMade
    /\ rwlock = "unlocked"
    /\ LET o == seg_tree_clear(head, count, max) IN
          /\ head' = o.head
          /\ count' = o.count
          /\ max' = o.max
    /\ op' = Call("clear", 0, 0, 0, 0, "OK")
    /\ found' = NULL
    /\ yielded' = <<>>
    /\ written' = NoHistory
    /\ nadds' = 0
    /\ UNCHANGED <<rwlock, notSegTree>>

Destroy ==
    /\ Alive
    /\ NoQueryMade
    /\ rwlock = "unlocked"
    /\ LET o == seg_tree_destroy(head, count, max) IN
          /\ head' = o.head
          /\ count' = o.count
          /\ max' = o.max
    /\ op' = Call("destroy", 0, 0, 0, 0, "OK")
    /\ found' = NULL
    /\ yielded' = <<>>
    /\ written' = NoHistory
    /\ nadds' = 0
    /\ UNCHANGED <<rwlock, notSegTree>>

\* seg_tree_find_nolock, called with the lock held by the caller.
Find(start, end, allocFails) ==
    /\ Alive
    /\ NoQueryMade
    /\ rwlock = "unlocked"
    /\ found' = seg_tree_find_nolock(head, start, end, allocFails)
    /\ op' = Call("find", start, end, 0, IF allocFails THEN 1 ELSE 0, "OK")
    /\ yielded' = <<>>
    /\ UNCHANGED <<head, count, max, rwlock, written, nadds, notSegTree>>

\* A full seg_tree_iter traversal under seg_tree_rdlock.
Iterate ==
    /\ Alive
    /\ NoQueryMade
    /\ rwlock = "unlocked"
    /\ yielded' = Traversal(head)
    /\ op' = Call("iter", 0, 0, 0, 0, "OK")
    /\ found' = NULL
    /\ UNCHANGED <<head, count, max, rwlock, written, nadds, notSegTree>>

Next ==
    \/ \E start \in Offsets, end \in Offsets, ptr \in Ptrs,
          failAt \in 0 .. MaxFailAt :
          /\ start <= end
          /\ Add(start, end, ptr, failAt)
          /\ UNCHANGED <<boundary, range_call>>
    \/ Clear /\ UNCHANGED <<boundary, range_call>>
    \/ Destroy /\ UNCHANGED <<boundary, range_call>>
    \/ \E start \in Offsets, end \in Offsets, allocFails \in BOOLEAN :
          /\ start <= end
          /\ Find(start, end, allocFails)
          /\ UNCHANGED <<boundary, range_call>>
    \/ Iterate /\ UNCHANGED <<boundary, range_call>>

Spec == Init /\ [][Next]_vars

(***************************************************************************)
(* Several threads calling into one tree.  Every function takes the write  *)
(* lock for its whole body; a traversal is a loop of seg_tree_iter calls   *)
(* that its caller brackets with seg_tree_rdlock and seg_tree_unlock.  The *)
(* new node of seg_tree_add is allocated before the lock is taken.  The    *)
(* body of a call, run with the lock held, is one step.  The arguments of  *)
(* a call are private to its thread until the body runs, so the step that  *)
(* runs the body is the one that draws them.                               *)
(***************************************************************************)
Running == \A t \in Threads : pc[t] # "crashed"

\* The tree's fields a thread step leaves alone, and the single caller's
\* record of its calls.
callerOnly == <<op, found, yielded, written, metavars, keyvars,
                sysvars, boundary,
                range_call>>

\* seg_tree_add up to seg_tree_wrlock: the new node is allocated.
T_CallAdd(t, allocFails) ==
    /\ Running
    /\ pc[t] = "idle"
    /\ nadds < MaxAdds
    /\ nadds' = nadds + 1
    /\ IF allocFails
       THEN /\ local' = [local EXCEPT ![t] =
                            [NoCall EXCEPT !.name = "add", !.rc = "ENOMEM"]]
            /\ pc' = pc
       ELSE /\ local' = [local EXCEPT ![t] = [NoCall EXCEPT !.name = "add"]]
            /\ pc' = [pc EXCEPT ![t] = "wrlock"]
    /\ UNCHANGED <<head, count, max, rwlock, wrholder, readers, callerOnly>>

\* seg_tree_clear, seg_tree_count and seg_tree_max up to seg_tree_wrlock.
T_Call(t, name) ==
    /\ Running
    /\ pc[t] = "idle"
    /\ local' = [local EXCEPT ![t] = [NoCall EXCEPT !.name = name]]
    /\ pc' = [pc EXCEPT ![t] = "wrlock"]
    /\ UNCHANGED <<head, count, max, rwlock, wrholder, readers, nadds,
                   callerOnly>>

\* The caller of a traversal, up to seg_tree_rdlock.
T_CallIter(t) ==
    /\ Running
    /\ pc[t] = "idle"
    /\ local' = [local EXCEPT ![t] = [NoCall EXCEPT !.name = "iter"]]
    /\ pc' = [pc EXCEPT ![t] = "rdlock"]
    /\ UNCHANGED <<head, count, max, rwlock, wrholder, readers, nadds,
                   callerOnly>>

\* seg_tree_wrlock returns: nobody holds the lock.
seg_tree_wrlock(t) ==
    /\ Running
    /\ pc[t] = "wrlock"
    /\ wrholder = 0
    /\ readers = {}
    /\ wrholder' = t
    /\ rwlock' = "wrlocked"
    /\ pc' = [pc EXCEPT ![t] = local[t].name]
    /\ UNCHANGED <<head, count, max, local, readers, nadds, callerOnly>>

\* seg_tree_rdlock returns: no writer holds the lock.  The traversal starts
\* with node = NULL; snap records the tree at this moment.
seg_tree_rdlock(t) ==
    /\ Running
    /\ pc[t] = "rdlock"
    /\ wrholder = 0
    /\ readers' = readers \cup {t}
    /\ rwlock' = "rdlocked"
    /\ local' = [local EXCEPT ![t].snap = head]
    /\ pc' = [pc EXCEPT ![t] = "iter"]
    /\ UNCHANGED <<head, count, max, wrholder, nadds, callerOnly>>

\* seg_tree_unlock, and the return to the caller.
seg_tree_unlock(t) ==
    /\ Running
    /\ pc[t] = "unlock"
    /\ wrholder' = IF wrholder = t THEN 0 ELSE wrholder
    /\ readers' = readers \ {t}
    /\ rwlock' = IF readers \ {t} = {} THEN "unlocked" ELSE "rdlocked"
    /\ pc' = [pc EXCEPT ![t] = "idle"]
    /\ local' = [local EXCEPT ![t] = NoCall]
    /\ UNCHANGED <<head, count, max, nadds, callerOnly>>

\* The body of seg_tree_add between seg_tree_wrlock and seg_tree_unlock.  A
\* return from inside the loop leaves the lock held by a thread that has
\* returned to its caller; a null dereference ends the process.
T_AddBody(t, start, end, ptr, failAt) ==
    /\ Running
    /\ pc[t] = "add"
    /\ ~AllocFails([nalloc |-> 0], failAt)
    /\ \E o \in seg_tree_add(head, count, max, start, end, ptr, failAt) :
          /\ head' = o.head
          /\ count' = o.count
          /\ max' = o.max
          /\ local' = [local EXCEPT ![t].rc = o.rc]
          /\ pc' = [pc EXCEPT ![t] =
                       CASE o.rc = "OK" -> "unlock"
                         [] o.rc = "ENOMEM" -> "idle"
                         [] OTHER -> "crashed"]
    /\ UNCHANGED <<rwlock, wrholder, readers, nadds, callerOnly>>

\* The body of seg_tree_clear.
T_ClearBody(t) ==
    /\ Running
    /\ pc[t] = "clear"
    /\ LET o == seg_tree_clear(head, count, max) IN
          /\ head' = o.head
          /\ count' = o.count
          /\ max' = o.max
    /\ nadds' = 0
    /\ pc' = [pc EXCEPT ![t] = "unlock"]
    /\ UNCHANGED <<rwlock, wrholder, readers, local, callerOnly>>

\* The body of seg_tree_count and of seg_tree_max: the field is read.
T_ReadBody(t) ==
    /\ Running
    /\ pc[t] \in {"count", "max"}
    /\ local' = [local EXCEPT ![t].value =
                    IF pc[t] = "count" THEN seg_tree_count ELSE seg_tree_max]
    /\ pc' = [pc EXCEPT ![t] = "unlock"]
    /\ UNCHANGED <<head, count, max, rwlock, wrholder, readers, nadds,
                   callerOnly>>

\* One pass of the caller's loop: while ((node = seg_tree_iter(tree, node))).
T_IterStep(t) ==
    /\ Running
    /\ pc[t] = "iter"
    /\ LET next == seg_tree_iter(head, local[t].node) IN
          IF next = NULL
          THEN /\ pc' = [pc EXCEPT ![t] = "unlock"]
               /\ local' = [local EXCEPT ![t].node = NULL]
          ELSE /\ pc' = pc
               /\ local' = [local EXCEPT ![t].node = next,
                                         ![t].seen = Append(@, next)]
    /\ UNCHANGED <<head, count, max, rwlock, wrholder, readers, nadds,
                   callerOnly>>

ThreadsNext ==
    \/ \E t \in Threads, allocFails \in BOOLEAN : T_CallAdd(t, allocFails)
    \/ \E t \in Threads, name \in {"clear", "count", "max"} : T_Call(t, name)
    \/ \E t \in Threads : T_CallIter(t)
    \/ \E t \in Threads : seg_tree_wrlock(t)
    \/ \E t \in Threads : seg_tree_rdlock(t)
    \/ \E t \in Threads : seg_tree_unlock(t)
    \/ \E t \in Threads, start \in Offsets, end \in Offsets, ptr \in Ptrs,
          failAt \in 0 .. MaxFailAt :
          start <= end /\ T_AddBody(t, start, end, ptr, failAt)
    \/ \E t \in Threads : T_ClearBody(t)
    \/ \E t \in Threads : T_ReadBody(t)
    \/ \E t \in Threads : T_IterStep(t)

SpecThreads == Init /\ [][ThreadsNext]_vars

(***************************************************************************)
(* The metadata service (server/src/unifycr_metadata.c).                   *)
(*                                                                         *)
(* The key-value store (MDHIM) is outside these sources.  It is modelled   *)
(* as the specification describes it: the extent index is an ordered       *)
(* store that keeps every pair it is given, pairs with equal keys in the   *)
(* order they arrived; a range get returns the stored pairs whose key lies *)
(* in one of the closed ranges, as a chain of reply batches that each      *)
(* carry an error slot; the attribute index is a point store.  How a reply *)
(* chain is cut into batches, which batches fail, and whether a chain is   *)
(* returned at all is the store's choice.                                  *)
(***************************************************************************)
\* Largest logical file offset a client writes at.
MaxFilePos == 1
\* Largest length of one write and of one read request.
MaxLen == 2
\* Number of raw index entries the client appends to its index region.
MaxEntries == 3
\* Number of pairs the extent index holds.
MaxRecords == 3
\* Number of read requests in one meta_batch_get call.
MaxReqs == 2
\* Slots of unifycr_keys / unifycr_key_lens / msg_meta (scaled down).
MAX_META_PER_SEND == 2

Fids == {1, 2, 3}
\* The file the client writes to.
WrittenFids == {2}
FilePos == 0 .. MaxFilePos
Lengths == 1 .. MaxLen

\* The rank of this delegator.
glb_rank == 7
\* The client that writes and flushes: its app_id and client_side_id.
Flusher == [app_id |-> 0, rank |-> 1]
\* The client that reads, with the thread that serves it.
Requester == [app_id |-> 1, client_id |-> 0, thrd_id |-> 2, dbg_rank |-> 3]

\* Error slots of a reply: MDHIM_SUCCESS, MDHIM_ERROR.
MdhimErrors == {0, -1}
\* Reply chains of a put: no chain at all, or up to two replies.
PutReplies ==
    {<<>>} \cup {<<e>> : e \in MdhimErrors}
           \cup {<<e, f>> : e \in MdhimErrors, f \in MdhimErrors}

unifycr_key_compare_by_offset(a, b) ==
    IF a.offset = b.offset THEN 0
    ELSE IF a.offset < b.offset THEN -1 ELSE 1

unifycr_key_compare(a, b) ==
    IF a.fid = b.fid THEN
        IF a.offset = b.offset THEN 0
        ELSE IF a.offset < b.offset THEN -1
        ELSE 1
    ELSE IF a.fid < b.fid THEN -1
    ELSE 1

\* The store inserts one pair: behind every pair whose key is not greater.
RECURSIVE mdhim_insert(_, _)
mdhim_insert(index, pair) ==
    IF index = <<>> THEN <<pair>>
    ELSE IF unifycr_key_compare(Head(index).key, pair.key) <= 0
         THEN <<Head(index)>> \o mdhim_insert(Tail(index), pair)
         ELSE <<pair>> \o index

\* mdhimBPut: the first `done` pairs of the batch reach the store, in order.
RECURSIVE mdhimBPut(_, _, _)
mdhimBPut(index, pairs, done) ==
    IF done = 0 \/ pairs = <<>> THEN index
    ELSE mdhimBPut(mdhim_insert(index, Head(pairs)), Tail(pairs), done - 1)

\* Every reply of a chain reports no error, and there is a chain.
AllOK(chain) == chain # <<>> /\ \A i \in 1 .. Len(chain) : chain[i] = 0

\* How many pairs of a batch of n a put stored: all of them when every
\* reply reports no error, all or none otherwise.
PutDone(chain, n) == IF AllOK(chain) THEN {n} ELSE {0, n}

\* mdhimBGet with MDHIM_RANGE_BGET: keys are taken two by two as the ends
\* of closed ranges.
InRanges(keys, k) ==
    \E i \in 1 .. (Len(keys) \div 2) :
        /\ unifycr_key_compare(keys[2 * i - 1], k) <= 0
        /\ unifycr_key_compare(k, keys[2 * i]) <= 0

mdhim_range(index, keys) ==
    LET Hit(pair) == InRanges(keys, pair.key) IN SelectSeq(index, Hit)

\* One reply batch: a failed batch carries no pairs.
Batch(error, pairs) ==
    [error |-> error, pairs |-> IF error < 0 THEN <<>> ELSE pairs]

\* The reply chains the store may answer a range get with.
GetReplies(found_pairs) ==
    {<<>>}
    \cup {<<Batch(e, found_pairs)>> : e \in MdhimErrors}
    \cup {<<Batch(e, SubSeq(found_pairs, 1, s)),
            Batch(f, SubSeq(found_pairs, s + 1, Len(found_pairs)))>> :
             s \in 0 .. Len(found_pairs), e \in MdhimErrors,
             f \in MdhimErrors}

\* The range get as a whole succeeded.
GetOK(chain) ==
    chain # <<>> /\ \A i \in 1 .. Len(chain) : chain[i].error = 0

\* meta_process_fsync, lines 275-290: one (key, value) pair per raw entry.
\* raw and by are not part of the pair: they record the raw entry and the
\* client the pair was made from.
fsync_pair_swapped(e, app_id, client_side_id) ==
    [key |-> [fid |-> e.fid, offset |-> e.file_pos],
     val |-> [addr |-> e.mem_pos, len |-> e.length,
              delegator_id |-> glb_rank, app_id |-> client_side_id,
              rank |-> app_id],
     raw |-> e,
     by |-> [app_id |-> app_id, rank |-> client_side_id]]

fsync_pair(e, app_id, client_side_id) ==
    [key |-> [fid |-> e.fid, offset |-> e.file_pos],
     val |-> [addr |-> e.mem_pos, len |-> e.length,
              delegator_id |-> glb_rank, app_id |-> app_id,
              rank |-> client_side_id],
     raw |-> e,
     by |-> [app_id |-> app_id, rank |-> client_side_id]]

fsync_pairs(meta_payload, num_entries, app_id, client_side_id) ==
    [i \in 1 .. num_entries |->
        fsync_pair(meta_payload[i], app_id, client_side_id)]

\* Lines 298-314 (and 342-358, 588-605): the first reply is tested for a
\* missing chain and for any error, the loop for a negative error; the
\* loop stops at the first negative error.
RECURSIVE brm_loop(_, _)
brm_loop(brmp, ret) ==
    IF brmp = <<>> THEN ret
    ELSE IF Head(brmp) < 0 THEN "ERROR_MDHIM"
    ELSE brm_loop(Tail(brmp), ret)

brm_rc_head_only(brm, ret) ==
    IF brm = <<>> \/ brm[1] # 0 THEN "ERROR_MDHIM" ELSE ret

brm_rc(brm, ret) ==
    brm_loop(brm, IF brm = <<>> \/ brm[1] # 0 THEN "ERROR_MDHIM" ELSE ret)

\* Lines 331-333: the value the flush stores for an attribute entry is a
\* fattr_val_t: the file name and the stat record.
fsync_attr(a) ==
    [key |-> a.gfid,
     val |-> [shape |-> "fattr_val_t", fname |-> a.filename,
              file_attr |-> a.file_attr]]

\* The attribute index keeps one value per gfid: a put replaces it.
RECURSIVE mdhimPutAttrs(_, _, _)
mdhimPutAttrs(index, pairs, done) ==
    IF done = 0 \/ pairs = <<>> THEN index
    ELSE mdhimPutAttrs([index EXCEPT ![Head(pairs).key] = Head(pairs).val],
                       Tail(pairs), done - 1)

\* meta_process_fsync.  b1 and b2 are the reply chains of the two
\* puts.  Writing entry MAX_META_PER_SEND of the key arrays is out of
\* bounds: the process crashes or runs on with memory overwritten.
meta_process_fsync(ext, fat, app_id, rank, meta_payload, attr_payload, b1, b2) ==
    IF Len(meta_payload) > MAX_META_PER_SEND
       \/ Len(attr_payload) > MAX_FILE_CNT_PER_NODE
    THEN {[extents |-> ext, fattrs |-> fat, rc |-> "none", fault |-> f] :
             f \in {"SIGSEGV", "overrun"}}
    ELSE
    LET ret1 == brm_rc(b1, "OK")
        attrs == [i \in 1 .. Len(attr_payload) |->
                     fsync_attr(attr_payload[i])]
        ret2 == brm_rc(b2, ret1)
        \* acked is not part of a pair: it records whether the flush that
        \* stored the pair returned success.
        pairs == [i \in 1 .. Len(meta_payload) |->
                     fsync_pairs(meta_payload, Len(meta_payload), app_id,
                                 rank)[i]
                     @@ [acked |-> ret2 = "OK"]]
    IN  {[extents |-> mdhimBPut(ext, pairs, done1),
          fattrs |-> mdhimPutAttrs(fat, attrs, done2),
          rc |-> ret2, fault |-> "none"] :
             done1 \in PutDone(b1, Len(pairs)),
             done2 \in PutDone(b2, Len(attrs))}

\* meta_batch_get, lines 390-400: two probe keys per request.
batch_get_keys(meta_reqs, req_cnt) ==
    [k \in 1 .. 2 * req_cnt |->
        LET req == meta_reqs[(k + 1) \div 2] IN
        IF k % 2 = 1
        THEN [fid |-> req.src_fid, offset |-> req.offset]
        ELSE [fid |-> req.src_fid, offset |-> req.offset + req.length - 1]]

\* Lines 423-447: the binding made from one returned pair.
batch_get_msg(pair, app_id, client_id, thrd_id, dbg_rank) ==
    [dest_offset |-> pair.val.addr,
     dest_delegator_rank |-> pair.val.delegator_id,
     dest_client_id |-> pair.val.rank,
     dest_app_id |-> pair.val.app_id,
     length |-> pair.val.len,
     src_app_id |-> app_id,
     src_cli_id |-> client_id,
     src_offset |-> pair.key.offset,
     src_delegator_rank |-> glb_rank,
     src_fid |-> pair.key.fid,
     src_dbg_rank |-> dbg_rank,
     src_thrd |-> thrd_id]

\* Lines 412-450: the loop over the reply chain.  acc is rc and the
\* bindings written so far (tot_num is their number).
RECURSIVE bgrm_loop_newest_first(_, _, _)
bgrm_loop_newest_first(reply, acc, who) ==
    IF reply = <<>> THEN acc
    ELSE bgrm_loop_newest_first(Tail(reply),
             [rc |-> IF Head(reply).error < 0 THEN "ERROR_MDHIM" ELSE acc.rc,
              msg_meta |->
                  [i \in 1 .. Len(Head(reply).pairs) |->
                      batch_get_msg(
                          Head(reply).pairs[Len(Head(reply).pairs) + 1 - i],
                          who.app_id, who.client_id, who.thrd_id,
                          who.dbg_rank)]
                  \o acc.msg_meta],
             who)

RECURSIVE bgrm_loop(_, _, _)
bgrm_loop(reply, acc, who) ==
    IF reply = <<>> THEN acc
    ELSE bgrm_loop(Tail(reply),
             [rc |-> IF Head(reply).error < 0 THEN "ERROR_MDHIM" ELSE acc.rc,
              msg_meta |-> acc.msg_meta \o
                  [i \in 1 .. Len(Head(reply).pairs) |->
                      batch_get_msg(Head(reply).pairs[i], who.app_id,
                                    who.client_id, who.thrd_id,
                                    who.dbg_rank)]],
             who)

\* meta_batch_get, given the probe keys it wrote and the reply chain the
\* store answered with.  Bindings past slot MAX_META_PER_SEND - 1 are
\* written outside del_req_set: the call returns with the memory behind
\* the array overwritten, or the process crashes.
batch_get_result(reply, who) ==
    LET r == bgrm_loop(reply, [rc |-> "OK", msg_meta |-> <<>>], who)
        out == [del_req_set |-> [num |-> Len(r.msg_meta),
                                 msg_meta |-> r.msg_meta],
                rc |-> r.rc]
    IN  IF Len(r.msg_meta) > MAX_META_PER_SEND
        THEN {[out EXCEPT !.rc = "none"] @@ [fault |-> "SIGSEGV"],
              out @@ [fault |-> "overrun"]}
        ELSE {out @@ [fault |-> "none"]}

(***************************************************************************)
(* The extent path as a state machine: the client appends raw entries to   *)
(* its index region, the delegator flushes the region on fsync, a request  *)
(* manager resolves read requests.  A faulted process makes no more calls. *)
(* meta_batch_get changes nothing in the store, so a run is explored with  *)
(* it as the last call.                                                    *)
(***************************************************************************)
\* The file-scope buffers.  A call made on its own writes each of them
\* before it reads it, so what a finished call left in them is not kept.
globals == <<unifycr_keys, primary_index, bgrm>>

MetaAlive == mop.fault = "none"
NoMetaQuery == mop.name \notin {"batch_get", "get_attr"}

\* The client's log is append-only: a write lands behind all earlier ones.
RECURSIVE LogTail(_)
LogTail(entries) ==
    IF entries = <<>> THEN 0
    ELSE Head(entries).length + LogTail(Tail(entries))

\* The client records one write in its index region.
Write(fid, file_pos, length) ==
    /\ MetaAlive
    /\ NoMetaQuery
    /\ Len(region) < MaxEntries
    /\ region' = Append(region,
                        [fid |-> fid, file_pos |-> file_pos,
                         mem_pos |-> LogTail(region), length |-> length])
    /\ UNCHANGED <<attr_region, extents, fattrs, del_req_set, attr_val, mop,
                   globals>>

Fsync(brm1, brm2) ==
    /\ MetaAlive
    /\ NoMetaQuery
    /\ Len(extents) + Len(region) <= MaxRecords
    /\ \E o \in meta_process_fsync(extents, fattrs, Flusher.app_id,
                                   Flusher.rank, region, attr_region,
                                   brm1, brm2) :
          /\ extents' = o.extents
          /\ fattrs' = o.fattrs
          /\ mop' = [name |-> "fsync", rc |-> o.rc, fault |-> o.fault,
                     ok1 |-> AllOK(brm1), ok2 |-> AllOK(brm2),
                     slots |-> Len(region)]
    /\ UNCHANGED <<region, attr_region, del_req_set, attr_val, globals>>

\* meta_batch_get.  With more than MAX_META_PER_SEND probe keys the key
\* arrays are written out of bounds.  issued and index record the keys and
\* the index the range get was made with, slots the number of slots of
\* the key arrays the call wrote (indices 0 .. slots-1).
BatchGet(meta_reqs) ==
    /\ MetaAlive
    /\ NoMetaQuery
    /\ LET req_cnt == Len(meta_reqs)
           keys == batch_get_keys(meta_reqs, req_cnt)
       IN  IF 2 * req_cnt > MAX_META_PER_SEND
           THEN /\ \E f \in {"SIGSEGV", "overrun"} :
                      mop' = [name |-> "batch_get", rc |-> "none",
                              fault |-> f, req_cnt |-> req_cnt,
                              slots |-> 2 * req_cnt]
                /\ UNCHANGED del_req_set
           ELSE \E reply \in GetReplies(mdhim_range(extents, keys)) :
                \E o \in batch_get_result(reply, Requester) :
                   /\ del_req_set' = o.del_req_set
                   /\ mop' = [name |-> "batch_get", rc |-> o.rc,
                              fault |-> o.fault, req_cnt |-> req_cnt,
                              reqs |-> meta_reqs,
                              issued |-> keys, index |-> 0,
                              slots |-> 2 * req_cnt,
                              nochain |-> reply = <<>>,
                              failed |-> \E i \in 1 .. Len(reply) :
                                             reply[i].error < 0]
    /\ UNCHANGED <<region, attr_region, extents, fattrs, attr_val, globals>>

notMeta == <<head, count, max, rwlock, op, found, yielded, written, nadds,
             thrvars, keyvars, sysvars, boundary,
             range_call>>

\* Read requests: shm_meta_t records.
Reqs ==
    [src_fid : Fids, offset : FilePos, length : 1 .. MaxFilePos + MaxLen]

ReqBatches ==
    UNION {[1 .. n -> Reqs] : n \in 0 .. MaxReqs}

MetaNext ==
    \/ \E fid \in WrittenFids, file_pos \in FilePos, length \in Lengths :
          Write(fid, file_pos, length) /\ UNCHANGED notMeta
    \/ \E brm1 \in PutReplies, brm2 \in PutReplies :
          Fsync(brm1, brm2) /\ UNCHANGED notMeta
    \/ \E meta_reqs \in ReqBatches : BatchGet(meta_reqs) /\ UNCHANGED notMeta

SpecMeta == Init /\ [][MetaNext]_vars

(***************************************************************************)
(* The attribute path of unifycr_metadata.c.  The attribute index is a     *)
(* point store keyed by gfid (spec section 4.4): a put replaces the value  *)
(* of its key, a get returns the value of its key.  A put whose reply      *)
(* reports an error, or that has no reply, may or may not have reached the *)
(* store; a get of a key that holds no value is answered with an error.    *)
(* A get is made as the last call.                                         *)
(***************************************************************************)
MaxAttrEntries == 2

LocalFids == {1, 2}
StatRecords == {0, 1}
Filenames == {"a", "b"}

\* unifycr_file_attr_t records, with the fields the code uses.
AttrRecs ==
    [gfid : Gfids, fid : LocalFids, file_attr : StatRecords,
     filename : Filenames]

\* The attribute entries the flushing client writes.
ClientAttrs ==
    [gfid : Gfids, fid : {1}, file_attr : StatRecords, filename : {"a"}]

\* The reply of a point put or get: none, or one with an error slot.
PointReplies == {<<>>} \cup {<<e>> : e \in MdhimErrors}

\* Lines 563-565: the value handed to mdhimPut is the whole
\* unifycr_file_attr_t.  acked is not part of the value: it records
\* whether the call that stored it returned success.
set_attr_value(f, acked) ==
    [shape |-> "unifycr_file_attr_t", gfid |-> f.gfid, fid |-> f.fid,
     file_attr |-> f.file_attr, filename |-> f.filename, acked |-> acked]

\* Lines 566-569.
point_rc(reply) ==
    IF reply = <<>> \/ reply[1] # 0 THEN "ERROR_MDHIM" ELSE "OK"

attr_copy_fid_from_gfid(val) ==
    [file_attr |-> val.file_attr, fid |-> val.gfid, gfid |-> val.gfid,
     filename |-> val.filename]

\* Lines 626-631: the fields copied out of values[0], read as a
\* unifycr_file_attr_t.
attr_copy(val) ==
    [file_attr |-> val.file_attr, fid |-> val.fid, gfid |-> val.gfid,
     filename |-> val.filename]

\* The client records the attributes of a file in its attribute region.
WriteAttr(a) ==
    /\ MetaAlive
    /\ NoMetaQuery
    /\ Len(attr_region) < MaxAttrEntries
    /\ attr_region' = Append(attr_region, a)
    /\ UNCHANGED <<region, extents, fattrs, del_req_set, attr_val, mop,
                   globals>>

\* unifycr_set_file_attribute.
SetAttr(f, reply, stored) ==
    /\ MetaAlive
    /\ NoMetaQuery
    /\ reply = <<0>> => stored
    /\ fattrs' = IF stored
                 THEN [fattrs EXCEPT ![f.gfid] =
                          set_attr_value(f, point_rc(reply) = "OK")]
                 ELSE fattrs
    /\ mop' = [name |-> "set_attr", rc |-> point_rc(reply),
               fault |-> "none", gfid |-> f.gfid]
    /\ UNCHANGED <<region, attr_region, extents, del_req_set, attr_val,
                   globals>>

\* unifycr_get_file_attribute.  A value that the flush stored is a
\* fattr_val_t; read as a unifycr_file_attr_t its bytes give any field
\* values, and the read runs past the end of the value.
GetAttr(gfid, reply) ==
    /\ MetaAlive
    /\ NoMetaQuery
    /\ fattrs[gfid].shape = "none" => reply # <<0>>
    /\ IF point_rc(reply) = "ERROR_MDHIM"
       THEN /\ mop' = [name |-> "get_attr", rc |-> "ERROR_MDHIM",
                       fault |-> "none", gfid |-> gfid,
                       answered |-> reply = <<0>>]
            /\ UNCHANGED attr_val
       ELSE IF fattrs[gfid].shape = "unifycr_file_attr_t"
       THEN /\ attr_val' = attr_copy(fattrs[gfid])
            /\ mop' = [name |-> "get_attr", rc |-> "OK", fault |-> "none",
                       gfid |-> gfid,
                       answered |-> reply = <<0>>]
       ELSE \/ /\ attr_val' \in AttrRecs
               /\ mop' = [name |-> "get_attr", rc |-> "OK",
                          fault |-> "none", gfid |-> gfid,
                          answered |-> reply = <<0>>]
            \/ /\ mop' = [name |-> "get_attr", rc |-> "none",
                          fault |-> "SIGSEGV", gfid |-> gfid,
                          answered |-> reply = <<0>>]
               /\ UNCHANGED attr_val
    /\ UNCHANGED <<region, attr_region, extents, fattrs, del_req_set,
                   globals>>

AttrNext ==
    \/ \E a \in ClientAttrs : WriteAttr(a) /\ UNCHANGED notMeta
    \/ \E brm1 \in PutReplies, brm2 \in PutReplies :
          Fsync(brm1, brm2) /\ UNCHANGED notMeta
    \/ \E f \in AttrRecs, reply \in PointReplies, stored \in BOOLEAN :
          SetAttr(f, reply, stored) /\ UNCHANGED notMeta
    \/ \E gfid \in Gfids, reply \in PointReplies :
          GetAttr(gfid, reply) /\ UNCHANGED notMeta

SpecAttr == Init /\ [][AttrNext]_vars

(***************************************************************************)
(* meta_batch_get called from several request-manager threads.  The key    *)
(* buffer unifycr_keys, md->primary_index and the reply pointer bgrm are   *)
(* file-scope variables that every call writes and reads; the function     *)
(* takes no lock.  A call is cut into the steps between which another      *)
(* thread can run: filling the key buffer, selecting the index, the range  *)
(* get, and each pass of the loop over the reply chain.  The store holds   *)
(* what one successful flush of up to two writes left in it.               *)
(***************************************************************************)
\* The request manager thread t and the client it serves.
RequesterOf(t) ==
    [app_id |-> 1, client_id |-> t, thrd_id |-> t + 2, dbg_rank |-> t + 4]

RawEntry(fid, file_pos, mem_pos, length) ==
    [fid |-> fid, file_pos |-> file_pos, mem_pos |-> mem_pos,
     length |-> length]

\* The index regions of up to two writes.
SmallRegions ==
    {<<>>}
    \cup {<<RawEntry(f, p, 0, l)>> :
             f \in WrittenFids, p \in FilePos, l \in Lengths}
    \cup UNION {{<<RawEntry(f, p, 0, l), RawEntry(f, q, l, m)>> :
                    q \in FilePos, m \in Lengths} :
                f \in WrittenFids, p \in FilePos, l \in Lengths}

MetaThreadsInit ==
    /\ TreeInit
    /\ ThreadsIdle
    /\ region \in SmallRegions
    /\ attr_region = <<>>
    /\ \E o \in meta_process_fsync(<<>>, [g \in Gfids |-> NoAttr],
                                   Flusher.app_id, Flusher.rank, region,
                                   <<>>, <<0>>, <<0>>) :
          /\ extents = o.extents
          /\ fattrs = o.fattrs
          /\ mop = [name |-> "fsync", rc |-> o.rc, fault |-> o.fault,
                    ok1 |-> TRUE, ok2 |-> TRUE, slots |-> Len(region)]
    /\ del_req_set = [num |-> 0, msg_meta |-> <<>>]
    /\ attr_val = <<>>
    /\ unifycr_keys = <<>>
    /\ primary_index = 0
    /\ bgrm = <<>>
    /\ KeyIdle
    /\ SysIdle
    /\ BoundaryIdle
    /\ RangeIdle

notMetaThreads ==
    <<head, count, max, rwlock, op, found, yielded, written, nadds,
      wrholder, readers, region, attr_region, extents, fattrs, del_req_set,
      attr_val, mop, keyvars, sysvars, boundary,
      range_call>>

\* Entry of meta_batch_get with one request.
MB_Call(t, req) ==
    /\ pc[t] = "idle"
    /\ local[t].name = "none"
    /\ local' = [local EXCEPT ![t] =
                    [name |-> "batch_get", req |-> req, issued |-> <<>>,
                     rc |-> "OK", msg_meta |-> <<>>]]
    /\ pc' = [pc EXCEPT ![t] = "keys"]
    /\ UNCHANGED <<globals, notMetaThreads>>

\* Lines 390-400: the probe keys are written into unifycr_keys.
MB_Keys(t) ==
    /\ pc[t] = "keys"
    /\ unifycr_keys' = batch_get_keys(<<local[t].req>>, 1)
    /\ pc' = [pc EXCEPT ![t] = "index"]
    /\ UNCHANGED <<local, primary_index, bgrm, notMetaThreads>>

\* Line 402: md->primary_index = unifycr_indexes[0].
MB_Index(t) ==
    /\ pc[t] = "index"
    /\ primary_index' = 0
    /\ pc' = [pc EXCEPT ![t] = "bget"]
    /\ UNCHANGED <<local, unifycr_keys, bgrm, notMetaThreads>>

\* Lines 403-404: bgrm = mdhimBGet(md, md->primary_index, unifycr_keys, ...).
\* issued records the keys the range get was made with.
MB_BGet(t) ==
    /\ pc[t] = "bget"
    /\ \E reply \in GetReplies(mdhim_range(IF primary_index = 0
                                           THEN extents ELSE <<>>,
                                           unifycr_keys)) :
          bgrm' = reply
    /\ local' = [local EXCEPT ![t].issued = unifycr_keys]
    /\ pc' = [pc EXCEPT ![t] = "loop"]
    /\ UNCHANGED <<unifycr_keys, primary_index, notMetaThreads>>

\* Lines 412-450: one pass of while (bgrm), or, with bgrm NULL, lines
\* 452-455: the call returns.
MB_Loop(t) ==
    /\ pc[t] = "loop"
    /\ IF bgrm = <<>>
       THEN /\ pc' = [pc EXCEPT ![t] = "done"]
            /\ UNCHANGED <<local, bgrm>>
       ELSE /\ LET acc == bgrm_loop(<<Head(bgrm)>>,
                                    [rc |-> local[t].rc,
                                     msg_meta |-> local[t].msg_meta],
                                    RequesterOf(t))
               IN  local' = [local EXCEPT ![t].rc = acc.rc,
                                          ![t].msg_meta = acc.msg_meta]
            /\ bgrm' = Tail(bgrm)
            /\ pc' = pc
    /\ UNCHANGED <<unifycr_keys, primary_index, notMetaThreads>>

\* The requests the threads make: of the written file.
ThreadReqs ==
    [src_fid : WrittenFids, offset : FilePos,
     length : 1 .. MaxFilePos + MaxLen]

MetaThreadsNext ==
    \/ \E t \in Threads, req \in ThreadReqs : MB_Call(t, req)
    \/ \E t \in Threads : MB_Keys(t)
    \/ \E t \in Threads : MB_Index(t)
    \/ \E t \in Threads : MB_BGet(t)
    \/ \E t \in Threads : MB_Loop(t)

SpecMetaThreads == MetaThreadsInit /\ [][MetaThreadsNext]_vars

(***************************************************************************)
(* unifycr_set_file_extents and unifycr_get_file_extents: the extent index *)
(* written and read by a caller that brings its own keys and values.  Both *)
(* hand an array of structs to the store where meta_process_fsync and      *)
(* meta_batch_get hand it an array of pointers (lines 292-294, 403-404):   *)
(* the store takes the array as the keys it holds, or follows its words    *)
(* as pointers and the process faults.                                     *)
(***************************************************************************)
\* Number of pairs of one unifycr_set_file_extents call.
MaxSetEntries == 2
\* Largest addr of a value (log offset).
MaxAddr == 1

ExtentKeys == [fid : WrittenFids, offset : FilePos]
\* unifycr_val_t as lines 677-680 read it.
ExtentVals ==
    [addr : 0 .. MaxAddr, len : Lengths, delegator_id : {glb_rank},
     app_rank_id : {Flusher.rank}]
ExtentPairs == [key : ExtentKeys, val : ExtentVals]
SetBatches ==
    UNION {[1 .. n -> ExtentPairs] : n \in 1 .. MaxSetEntries}
\* The two keys of one range, low end first.
RangeKeys ==
    {k \in ExtentKeys \X ExtentKeys : unifycr_key_compare(k[1], k[2]) <= 0}

\* Lines 674-680: the entry made from one returned pair.  addr is assigned
\* twice, the second time from len; len itself is left as calloc made it.
extent_keyval(pair) ==
    [key |-> [fid |-> pair.key.fid, offset |-> pair.key.offset],
     val |-> [addr |-> pair.val.len,
              app_rank_id |-> pair.val.app_rank_id,
              delegator_id |-> pair.val.delegator_id,
              len |-> 0]]

\* Lines 664-686: the loop over the reply chain.  *keyval is allocated anew
\* for every reply, and tot_num is advanced once per reply.
RECURSIVE get_extents_loop(_, _)
get_extents_loop(bgrmp, acc) ==
    IF bgrmp = <<>> THEN acc
    ELSE get_extents_loop(
             Tail(bgrmp),
             [rc |-> IF Head(bgrmp).error < 0 THEN "ERROR_MDHIM" ELSE acc.rc,
              keyval |-> [i \in 1 .. Len(Head(bgrmp).pairs) |->
                             extent_keyval(Head(bgrmp).pairs[i])],
              tot_num |-> acc.tot_num + 1])

\* unifycr_get_file_extents, given the reply chain of its range get and
\* what the caller's *keyval held.
unifycr_get_file_extents(reply, keyval) ==
    LET r == get_extents_loop(reply, [rc |-> "OK", keyval |-> keyval,
                                      tot_num |-> 0])
    IN  [rc |-> r.rc, keyval |-> r.keyval, num_values |-> r.tot_num]

\* unifycr_set_file_extents, lines 702-723: the return code.
unifycr_set_file_extents(brm) ==
    brm_rc(brm, "OK")

NoExtentQuery == mop.name # "get_extents"

SetExtents(pairs, brm) ==
    /\ MetaAlive
    /\ NoExtentQuery
    /\ Len(extents) + Len(pairs) <= MaxRecords
    /\ \/ /\ \E done \in PutDone(brm, Len(pairs)) :
                extents' = mdhimBPut(extents, pairs, done)
          /\ mop' = [name |-> "set_extents",
                     rc |-> unifycr_set_file_extents(brm), fault |-> "none"]
       \/ /\ mop' = [name |-> "set_extents", rc |-> "none",
                     fault |-> "SIGSEGV"]
          /\ UNCHANGED extents
    /\ UNCHANGED <<region, attr_region, fattrs, del_req_set, attr_val,
                   globals>>

GetExtents(keys, reply) ==
    /\ MetaAlive
    /\ NoExtentQuery
    /\ \/ LET o == unifycr_get_file_extents(reply, <<>>)
          IN  mop' = [name |-> "get_extents", rc |-> o.rc, fault |-> "none",
                      keys |-> keys, reply |-> reply,
                      keyval |-> o.keyval, num_values |-> o.num_values]
       \/ mop' = [name |-> "get_extents", rc |-> "none", fault |-> "SIGSEGV"]
    /\ UNCHANGED <<region, attr_region, extents, fattrs, del_req_set,
                   attr_val, globals>>

ExtentsNext ==
    \/ \E pairs \in SetBatches, brm \in PutReplies :
          SetExtents(pairs, brm) /\ UNCHANGED notMeta
    \/ \E keys \in RangeKeys :
       \E reply \in GetReplies(mdhim_range(extents, keys)) :
          GetExtents(keys, reply) /\ UNCHANGED notMeta

SpecExtents == Init /\ [][ExtentsNext]_vars

(***************************************************************************)
(* The index selection md->primary_index with several threads inside the   *)
(* metadata calls.  Each call assigns md->primary_index and then makes its *)
(* store call: the puts take no index argument and go to the index         *)
(* md->primary_index names when they run, the gets are passed the value    *)
(* md->primary_index has when they are made.  The file takes no lock.      *)
(* Index 0 is the extent index (unifycr_indexes[0]), index 1 the attribute *)
(* index (unifycr_indexes[1]).                                             *)
(***************************************************************************)
\* For each call, the index it selects before each of its store calls:
\* meta_process_fsync lines 274/295 and 317/339, unifycr_set_file_extents
\* 702/704, unifycr_set_file_attribute 562/563, unifycr_set_file_attributes
\* 585/586, unifycr_get_file_attribute 619/620.
IndexCalls ==
    [fsync |-> <<0, 1>>, set_extents |-> <<0>>, set_attr |-> <<1>>,
     set_attrs |-> <<1>>, get_attr |-> <<1>>]

\* Entry of one of the calls.  delivered records the index each store
\* call of the thread was made on.
IX_Call(t, name) ==
    /\ pc[t] = "idle"
    /\ local[t].name = "none"
    /\ local' = [local EXCEPT ![t] =
                    [name |-> name, todo |-> IndexCalls[name],
                     delivered |-> <<>>]]
    /\ pc' = [pc EXCEPT ![t] = "select"]
    /\ UNCHANGED <<globals, notMetaThreads>>

\* md->primary_index = unifycr_indexes[k].
IX_Select(t) ==
    /\ pc[t] = "select"
    /\ primary_index' = Head(local[t].todo)
    /\ pc' = [pc EXCEPT ![t] = "store"]
    /\ UNCHANGED <<local, unifycr_keys, bgrm, notMetaThreads>>

\* The store call that follows: it acts on the index md->primary_index
\* names now.
IX_Store(t) ==
    /\ pc[t] = "store"
    /\ local' = [local EXCEPT
                    ![t].delivered = Append(@, primary_index),
                    ![t].todo = Tail(@)]
    /\ pc' = [pc EXCEPT ![t] = IF Tail(local[t].todo) = <<>>
                                THEN "done" ELSE "select"]
    /\ UNCHANGED <<globals, notMetaThreads>>

IndexNext ==
    \/ \E t \in Threads, name \in DOMAIN IndexCalls : IX_Call(t, name)
    \/ \E t \in Threads : IX_Select(t)
    \/ \E t \in Threads : IX_Store(t)

SpecIndex == Init /\ [][IndexNext]_vars

(***************************************************************************)
(* unifycr_key_compare as the store calls it: on keys of the extent index. *)
(* The keys are drawn at the start; one step compares every pair of them.  *)
(***************************************************************************)
MaxKeyOffset == 2
NKeys == 3

\* unifycr_key_t values.
Keys == [fid : Fids, offset : 0 .. MaxKeyOffset]

KeyInit ==
    /\ TreeInit
    /\ ThreadsIdle
    /\ MetaInit
    /\ SysIdle
    /\ BoundaryIdle
    /\ RangeIdle
    /\ cmp_keys \in [1 .. NKeys -> Keys]
    /\ cmp_ret = <<>>

KeyCompare ==
    /\ cmp_ret = <<>>
    /\ cmp_ret' = [i \in 1 .. NKeys |->
                      [j \in 1 .. NKeys |->
                          unifycr_key_compare(cmp_keys[i], cmp_keys[j])]]
    /\ UNCHANGED <<cmp_keys, head, count, max, rwlock, op, found, yielded,
                   written, nadds, thrvars, metavars, sysvars, boundary,
                   range_call>>

KeyNext == KeyCompare

SpecKey == KeyInit /\ [][KeyNext]_vars

(***************************************************************************)
(* The calls t/sys/open.c makes on the mounted file system: open, close,   *)
(* mkdir and rmdir on the two names it draws.  The wrapped calls are not   *)
(* part of the sources; they behave as the test expects of them (its       *)
(* comments and ok() conditions), and as POSIX says where the test is      *)
(* silent.  What open does on a directory is the test's open question      *)
(* (todo open_1): either outcome is possible.                              *)
(***************************************************************************)
\* The flags of the three open calls on path, and of the one on dir_path.
rdwr_flags_creat ==
    {"O_RDWR", "O_CREAT"}

rdwr_flags ==
    {"O_RDWR"}

create_flags_no_excl ==
    {"O_CREAT"}

create_flags ==
    {"O_CREAT", "O_EXCL"}

OpenFlags == {rdwr_flags, create_flags}

\* The lowest descriptor that is not open.
FreeFd == CHOOSE fd \in Fds : fdtab[fd] = "" /\ \A g \in Fds : g < fd => fdtab[g] # ""

\* What open answers for a name that is (kind) a file, a directory or
\* nothing: the set of [fd, errno, creates] it may give, fd -1 on failure.
wrap_open(kind, flags, fd) ==
    IF kind = "none"
    THEN IF "O_CREAT" \in flags
         THEN {[fd |-> fd, errno |-> "0", creates |-> TRUE]}
         ELSE {[fd |-> -1, errno |-> "ENOENT", creates |-> FALSE]}
    ELSE IF "O_CREAT" \in flags /\ "O_EXCL" \in flags
    THEN {[fd |-> -1, errno |-> "EEXIST", creates |-> FALSE]}
    ELSE IF kind = "dir"
    THEN {[fd |-> fd, errno |-> "0", creates |-> FALSE],
          [fd |-> -1, errno |-> "EISDIR", creates |-> FALSE]}
    ELSE {[fd |-> fd, errno |-> "0", creates |-> FALSE]}

\* fd = open(p, flags, file_mode).  existed is the kind of p at the call.
Open(p, flags) ==
    /\ \E fd \in Fds : fdtab[fd] = ""
    /\ \E r \in wrap_open(files[p], flags, FreeFd) :
          /\ files' = IF r.creates THEN [files EXCEPT ![p] = "file"]
                      ELSE files
          /\ fdtab' = IF r.fd >= 0 THEN [fdtab EXCEPT ![r.fd] = p]
                      ELSE fdtab
          /\ sysop' = [name |-> "open", path |-> p, flags |-> flags,
                       existed |-> files[p], fd |-> r.fd,
                       errno |-> r.errno]

\* rc = close(fd).
Close(fd) ==
    /\ fdtab[fd] # ""
    /\ fdtab' = [fdtab EXCEPT ![fd] = ""]
    /\ sysop' = [name |-> "close", path |-> fdtab[fd], flags |-> {},
                 existed |-> files[fdtab[fd]], fd |-> fd, errno |-> "0"]
    /\ UNCHANGED files

\* rc = mkdir(p, dir_mode).
Mkdir(p) ==
    /\ files' = IF files[p] = "none" THEN [files EXCEPT ![p] = "dir"]
                ELSE files
    /\ sysop' = [name |-> "mkdir", path |-> p, flags |-> {},
                 existed |-> files[p], fd |-> -1,
                 errno |-> IF files[p] = "none" THEN "0" ELSE "EEXIST"]
    /\ UNCHANGED fdtab

\* rc = rmdir(p).
Rmdir(p) ==
    /\ files' = IF files[p] = "dir" THEN [files EXCEPT ![p] = "none"]
                ELSE files
    /\ sysop' = [name |-> "rmdir", path |-> p, flags |-> {},
                 existed |-> files[p], fd |-> -1,
                 errno |-> IF files[p] = "dir" THEN "0"
                           ELSE IF files[p] = "none" THEN "ENOENT"
                           ELSE "ENOTDIR"]
    /\ UNCHANGED fdtab

notSys ==
    <<head, count, max, rwlock, op, found, yielded, written, nadds,
      thrvars, metavars, keyvars, boundary,
      range_call>>

OpenNext ==
    \/ \E p \in Paths, flags \in OpenFlags :
          Open(p, flags) /\ UNCHANGED notSys
    \/ \E fd \in Fds : Close(fd) /\ UNCHANGED notSys
    \/ \E p \in Paths : Mkdir(p) /\ UNCHANGED notSys
    \/ \E p \in Paths : Rmdir(p) /\ UNCHANGED notSys

SpecOpen == Init /\ [][OpenNext]_vars

(***************************************************************************)
(* The three adds around one byte k: [k, k, p], [k-1, k, q] and            *)
(* [k, k+1, r], made once each, in any order, on a new tree.               *)
(***************************************************************************)
\* The i-th of the three segments.
BoundarySeg(i) ==
    IF i = 1
    THEN seg_tree_node_alloc(boundary.k, boundary.k, boundary.p)
    ELSE IF i = 2
    THEN seg_tree_node_alloc(boundary.k - 1, boundary.k, boundary.q)
    ELSE seg_tree_node_alloc(boundary.k, boundary.k + 1, boundary.r)

BoundaryInit ==
    /\ TreeInit
    /\ ThreadsIdle
    /\ MetaInit
    /\ KeyIdle
    /\ SysIdle
    /\ boundary \in [k : 1 .. MaxOffset - 1, p : Ptrs, q : Ptrs, r : Ptrs,
                     done : {<<>>}]
    /\ RangeIdle

\* seg_tree_add of the i-th segment, every allocation succeeding.
BoundaryAdd(i) ==
    /\ \A j \in 1 .. Len(boundary.done) : boundary.done[j] # i
    /\ Add(BoundarySeg(i).start, BoundarySeg(i).end, BoundarySeg(i).ptr, 0)
    /\ boundary' = [boundary EXCEPT !.done = Append(@, i)]
    /\ UNCHANGED range_call

BoundaryNext == \E i \in 1 .. 3 : BoundaryAdd(i)

SpecBoundary == BoundaryInit /\ [][BoundaryNext]_vars

(***************************************************************************)
(* get_non_overlapping_range on its own: the two ranges and the values     *)
(* the caller's new_start / new_end hold are drawn at the start; one step  *)
(* makes the call.  seg_tree_add calls it with new_start and new_end       *)
(* holding 0 or what an earlier pass left in them (lines 143, 167-168).    *)
(***************************************************************************)
RangeArgs ==
    {a \in [start1 : Offsets, end1 : Offsets, start2 : Offsets,
            end2 : Offsets, new_start : {0, MaxOffset},
            new_end : {0, MaxOffset}, rc : {-1}] :
        a.start1 <= a.end1 /\ a.start2 <= a.end2}

RangeInit ==
    /\ TreeInit
    /\ ThreadsIdle
    /\ MetaInit
    /\ KeyIdle
    /\ SysIdle
    /\ BoundaryIdle
    /\ range_call \in RangeArgs

\* rc = get_non_overlapping_range(start1, end1, start2, end2, &new_start,
\* &new_end).
RangeCall ==
    /\ range_call.rc = -1
    /\ LET r == get_non_overlapping_range(
                    range_call.start1, range_call.end1, range_call.start2,
                    range_call.end2, range_call.new_start,
                    range_call.new_end)
       IN  range_call' = [range_call EXCEPT !.rc = r.rc,
                                            !.new_start = r.new_start,
                                            !.new_end = r.new_end]
    /\ UNCHANGED <<head, count, max, rwlock, op, found, yielded, written,
                   nadds, thrvars, metavars, keyvars, sysvars, boundary>>

RangeNext == RangeCall

SpecRange == RangeInit /\ [][RangeNext]_vars

(***************************************************************************)
(* Properties.                                                             *)
(***************************************************************************)
NonOverlapping(T) ==
    \A a \in T, b \in T : a # b => (a.end < b.start \/ b.end < a.start)

\* The segments of T that contain byte offset x.
Covering(T, x) == {n \in T : n.start <= x /\ x <= n.end}

\* The physical offset a segment maps byte offset x to.
Physical(n, x) == Wrap(n.ptr + (x - n.start))

Succeeded == op.rc = "OK"

\* C1: after every add that returns success and after every clear, any two
\* distinct segments a, b of the tree satisfy a.end < b.start or
\* b.end < a.start.
C1_NonOverlap ==
    (op.name \in {"add", "clear"} /\ Succeeded) => NonOverlapping(head)

\* An add has split an existing segment in two around the new one.
C1_Witness ==
    /\ op.name = "add" /\ Succeeded
    /\ nadds = 2
    /\ Cardinality(head) = 3

\* C2: last writer wins per byte.  A byte no successful add has covered
\* since init or the last clear is in no segment; any other byte is in
\* exactly one segment, which maps it to the physical offset the most
\* recent successful add covering it gave it.
C2_LastWriterWins ==
    Succeeded =>
        \A x \in Offsets :
            IF written[x] = -1
            THEN Covering(head, x) = {}
            ELSE /\ Cardinality(Covering(head, x)) = 1
                 /\ \A n \in Covering(head, x) : Physical(n, x) = written[x]

\* The last add landed inside older data: a left remainder ends right
\* before it and a right remainder with an advanced pointer follows it.
C2_Witness ==
    /\ op.name = "add" /\ Succeeded
    /\ \E l \in head, r \in head :
          /\ l.end + 1 = op.start
          /\ r.start = op.end + 1
          /\ l.ptr # op.ptr
          /\ r.ptr = Wrap(l.ptr + (r.start - l.start))

\* C3: after a successful add(s, e, p) the tree holds the segment
\* [s, e, p] itself, and every byte of [s, e] is in that segment only.
C3_NewSegmentIntact ==
    (op.name = "add" /\ Succeeded) =>
        LET new == seg_tree_node_alloc(op.start, op.end, op.ptr) IN
        /\ new \in head
        /\ \A x \in op.start .. op.end :
              /\ Covering(head, x) = {new}
              /\ Physical(new, x) = Wrap(op.ptr + (x - op.start))

\* The new segment lies between two older segments it touches, with
\* pointers that continue the left one's mapping.
C3_Witness ==
    /\ op.name = "add" /\ Succeeded
    /\ \E l \in head, r \in head :
          /\ l.end + 1 = op.start
          /\ r.start = op.end + 1
          /\ op.ptr = Wrap(l.ptr + (op.start - l.start))

\* C4: after any sequence of successful adds and clears, seg_tree_count
\* equals the number of segments a full seg_tree_iter traversal yields.
C4_CountConsistency ==
    Succeeded => seg_tree_count = Len(Traversal(head))

\* The largest end of a successful add since init or the last clear
\* (0 if there was none).
HistoryMax ==
    LET covered == {x \in Offsets : written[x] # -1} IN
    IF covered = {} THEN 0
    ELSE CHOOSE x \in covered : \A y \in covered : y <= x

\* C5: seg_tree_max always equals the largest end passed to a successful
\* add since init or the last clear (0 if none); no add makes it smaller,
\* and it becomes smaller only through clear.
C5_MonotoneMax ==
    /\ [](seg_tree_max = HistoryMax)
    /\ [][/\ op'.name = "add" => max' >= max
          /\ max' < max => op'.name \in {"clear", "destroy"}]_vars

\* A successful add whose end lies below the maximum: max stays.
C5_Witness ==
    /\ op.name = "add" /\ Succeeded
    /\ op.end < max
    /\ nadds >= 2

\* The segments of T that lie completely inside [start, end].
Covered(T, start, end) == {n \in T : start <= n.start /\ n.end <= end}

Intersecting(T, start, end) == {n \in T : n.start <= end /\ start <= n.end}

\* The intersecting segment with the lowest start, NULL if none intersects.
FirstIntersecting(T, start, end) ==
    IF Intersecting(T, start, end) = {} THEN NULL
    ELSE Leftmost(Intersecting(T, start, end))

\* C7: for every tree and every query [start, end], seg_tree_find_nolock
\* returns the intersecting segment with the lowest start, and none
\* exactly when no segment intersects [start, end].
C7_Find ==
    op.name = "find" => found = FirstIntersecting(head, op.start, op.end)

\* What holds of seg_tree_find_nolock: the same, for the calls whose
\* allocation of the search key succeeded.
C7_FindWhenAllocated ==
    (op.name = "find" /\ op.failAt = 0) =>
        found = FirstIntersecting(head, op.start, op.end)

\* C8: a traversal that starts from NULL and passes the last node back
\* yields every segment of the tree exactly once, in strictly ascending
\* order of start, and then NULL; on an empty tree the first call
\* returns NULL.
C8_IterYieldsAll ==
    op.name = "iter" =>
        /\ Len(yielded) = Cardinality(head)
        /\ {yielded[i] : i \in 1 .. Len(yielded)} = head
        /\ \A i \in 1 .. Len(yielded) - 1 :
              yielded[i].start < yielded[i + 1].start
        /\ seg_tree_iter(head, IF yielded = <<>> THEN NULL
                               ELSE yielded[Len(yielded)]) = NULL

\* A traversal of a tree of three segments.
C8_Witness ==
    /\ op.name = "iter"
    /\ Len(yielded) = 3
    /\ Cardinality(head) = 3

\* C9: seg_tree_clear (and seg_tree_destroy) leaves the tree as
\* seg_tree_init does: no segments, count = 0, max = 0, lock free.
C9_ClearResets ==
    op.name \in {"clear", "destroy"} =>
        /\ head = {}
        /\ count = 0
        /\ max = 0
        /\ rwlock = "unlocked"

\* A clear of a tree that held three segments.
C9_Witness ==
    /\ op.name = "clear"
    /\ op.count0 = 3
    /\ head = {}

\* C10: an add that returns out-of-memory leaves the tree non-overlapping
\* and either as it was before the call or as the completed insert
\* leaves it.
C10_AtomicOnENOMEM ==
    [][(op'.name = "add" /\ op'.rc = "ENOMEM") =>
          /\ NonOverlapping(head')
          /\ \/ head' = head /\ count' = count /\ max' = max
             \/ \E o \in seg_tree_add(head, count, max,
                                      op'.start, op'.end, op'.ptr, 0) :
                   head' = o.head /\ count' = o.count /\ max' = o.max]_vars

\* C11: an add in which a node allocation fails (the new node, the trimmed
\* remainder or the remaining-section node) returns out-of-memory: it never
\* inserts or dereferences a null node.  A call that does not return
\* success returned ENOMEM.
C11_AllocFailureENOMEM ==
    (op.name = "add" /\ op.rc # "OK") => op.rc = "ENOMEM"

\* A traversal in progress has yielded, in order, the segments the tree
\* held when the read lock was taken, and the tree still holds them.
IsPrefix(s, t) == Len(s) <= Len(t) /\ \A i \in 1 .. Len(s) : s[i] = t[i]

TraversalOfSnapshot(t) ==
    /\ head = local[t].snap
    /\ IsPrefix(local[t].seen, Traversal(local[t].snap))
    /\ pc[t] = "unlock" => local[t].seen = Traversal(local[t].snap)

LockingSafe ==
    /\ wrholder = 0 => NonOverlapping(head)
    /\ \A t \in readers : TraversalOfSnapshot(t)
    /\ wrholder # 0 => readers = {}

(***************************************************************************)
(* Properties of the metadata service.                                     *)
(***************************************************************************)
\* The last call was a meta_batch_get of one request that returned, and
\* the store answered it with a chain of batches none of which failed.
Resolved ==
    /\ mop.name = "batch_get"
    /\ mop.fault # "SIGSEGV"
    /\ mop.req_cnt = 1
    /\ ~mop.nochain
    /\ ~mop.failed

\* The binding a reader is owed for a stored pair: the fields of the raw
\* entry it was flushed from, the client that flushed it, this delegator.
ExpectedMsg(rec) ==
    [dest_offset |-> rec.raw.mem_pos,
     dest_delegator_rank |-> glb_rank,
     dest_client_id |-> rec.by.rank,
     dest_app_id |-> rec.by.app_id,
     length |-> rec.raw.length,
     src_app_id |-> Requester.app_id,
     src_cli_id |-> Requester.client_id,
     src_offset |-> rec.raw.file_pos,
     src_delegator_rank |-> glb_rank,
     src_fid |-> rec.raw.fid,
     src_dbg_rank |-> Requester.dbg_rank,
     src_thrd |-> Requester.thrd_id]

\* The pair a flush owes the store for a raw entry of the flushing client.
ExpectedPair(e) ==
    [key |-> [fid |-> e.fid, offset |-> e.file_pos],
     val |-> [addr |-> e.mem_pos, len |-> e.length,
              delegator_id |-> glb_rank, app_id |-> Flusher.app_id,
              rank |-> Flusher.rank],
     raw |-> e,
     by |-> Flusher,
     acked |-> TRUE]

\* The extent [fid, first .. last] lies inside the request.
Spans(req, fid, first, last) ==
    /\ fid = req.src_fid
    /\ req.offset <= first
    /\ last <= req.offset + req.length - 1

\* The stored pairs the request spans, and the bindings it spans.
SpannedPairs(req) ==
    LET In(rec) == Spans(req, rec.raw.fid, rec.raw.file_pos,
                         rec.raw.file_pos + rec.raw.length - 1)
    IN  SelectSeq(extents, In)

SpannedMsgs(req) ==
    LET In(m) == Spans(req, m.src_fid, m.src_offset,
                       m.src_offset + m.length - 1)
    IN  SelectSeq(del_req_set.msg_meta, In)

\* The bytes of file fid that a sequence of bindings covers.
MsgBytes(msgs, fid) ==
    {x \in 0 .. MaxFilePos + MaxLen :
        \E i \in 1 .. Len(msgs) :
            /\ msgs[i].src_fid = fid
            /\ msgs[i].src_offset <= x
            /\ x <= msgs[i].src_offset + msgs[i].length - 1}

PairBytes(pairs, fid) ==
    {x \in 0 .. MaxFilePos + MaxLen :
        \E i \in 1 .. Len(pairs) :
            /\ pairs[i].raw.fid = fid
            /\ pairs[i].raw.file_pos <= x
            /\ x <= pairs[i].raw.file_pos + pairs[i].raw.length - 1}

\* The step is a meta_process_fsync that returned success.
FsyncSucceeded ==
    /\ region' = region
    /\ mop'.name = "fsync"
    /\ mop'.rc = "OK"

\* C13: extent round trip.  A meta_process_fsync that returns success has
\* stored one pair for every raw entry of the index region; a later
\* meta_batch_get whose range get succeeded returns, for the stored pairs
\* its request spans, exactly one binding each, in the order of the store,
\* with src_fid, src_offset, length and dest_offset those of the raw entry,
\* dest_delegator_rank the flushing delegator and dest_app_id and
\* dest_client_id the flushing client; the bytes the spanned bindings
\* cover are the bytes the spanned entries cover.
C13_ExtentRoundTrip ==
    /\ [](Resolved =>
            LET req == mop.reqs[1]
                flushed == SpannedPairs(req)
                got == SpannedMsgs(req)
            IN  /\ got = [i \in 1 .. Len(flushed) |-> ExpectedMsg(flushed[i])]
                /\ MsgBytes(got, req.src_fid) = PairBytes(flushed, req.src_fid)
                /\ mop.rc = "OK")
    /\ [][FsyncSucceeded =>
             extents' = mdhimBPut(extents,
                                  [i \in 1 .. Len(region) |->
                                      ExpectedPair(region[i])],
                                  Len(region))]_vars

\* Two non-overlapping entries were flushed and a request that spans both
\* was resolved into two bindings.
C13_Witness ==
    /\ Resolved
    /\ Len(extents) = 2
    /\ extents[1].raw.file_pos + extents[1].raw.length - 1
          < extents[2].raw.file_pos
    /\ Len(SpannedPairs(mop.reqs[1])) = 2
    /\ del_req_set.num = 2

\* C14: meta_process_fsync returns success if and only if every reply of
\* the extent put and every reply of the attribute put reports no error
\* and neither reply chain is missing; a failure of the first put is not
\* masked by a successful second put.
C14_FsyncSuccessIffAllOK ==
    (mop.name = "fsync" /\ mop.fault = "none") =>
        /\ mop.rc \in {"OK", "ERROR_MDHIM"}
        /\ mop.rc = "OK" <=> (mop.ok1 /\ mop.ok2)

\* A flush whose extent put failed and whose attribute put succeeded.
C14_Witness ==
    /\ mop.name = "fsync"
    /\ mop.fault = "none"
    /\ ~mop.ok1
    /\ mop.ok2
    /\ mop.rc = "ERROR_MDHIM"
    /\ Len(region) = 2

\* C15: every requested byte is located.  For every extent of the requested
\* file that a successful fsync stored, every byte it shares with the
\* request is covered by a binding, also when the extent starts before the
\* requested offset.
C15_EveryByteLocated ==
    Resolved =>
        LET req == mop.reqs[1] IN
        \A i \in 1 .. Len(extents) :
            \A x \in req.offset .. req.offset + req.length - 1 :
                (/\ extents[i].acked
                 /\ extents[i].raw.fid = req.src_fid
                 /\ extents[i].raw.file_pos <= x
                 /\ x <= extents[i].raw.file_pos + extents[i].raw.length - 1)
                => x \in MsgBytes(del_req_set.msg_meta, req.src_fid)

\* What the probe keys do locate: every stored extent of the requested
\* file that starts inside the request has its binding.
ExtentsStartingInsideLocated ==
    Resolved =>
        LET req == mop.reqs[1] IN
        \A i \in 1 .. Len(extents) :
            (/\ extents[i].raw.fid = req.src_fid
             /\ req.offset <= extents[i].raw.file_pos
             /\ extents[i].raw.file_pos <= req.offset + req.length - 1)
            => \E j \in 1 .. Len(del_req_set.msg_meta) :
                  del_req_set.msg_meta[j] = ExpectedMsg(extents[i])

\* Two stored pairs are two writes of one client to the same (fid, offset),
\* the second made after the first: it lies further on in the client's
\* append-only log.  Both were stored by flushes that returned success.
Overwrites(earlier, later) ==
    /\ earlier.acked
    /\ later.acked
    /\ earlier.key = later.key
    /\ earlier.by = later.by
    /\ earlier.raw.mem_pos < later.raw.mem_pos

\* C16: latest copy after overwrite.  When a client wrote the same
\* (fid, offset) twice and both entries were flushed, a meta_batch_get whose
\* request covers that offset returns both, the binding of the later write
\* behind the binding of the earlier one.
C16_LaterWriteLater ==
    Resolved =>
        \A i \in 1 .. Len(extents), j \in 1 .. Len(extents) :
            (/\ Overwrites(extents[i], extents[j])
             /\ InRanges(batch_get_keys(mop.reqs, 1), extents[i].key))
            => \E p \in 1 .. Len(del_req_set.msg_meta) :
               \E q \in (p + 1) .. Len(del_req_set.msg_meta) :
                  /\ del_req_set.msg_meta[p] = ExpectedMsg(extents[i])
                  /\ del_req_set.msg_meta[q] = ExpectedMsg(extents[j])

\* An overwritten offset was resolved into exactly its two bindings.
C16_Witness ==
    /\ Resolved
    /\ Len(extents) = 2
    /\ Overwrites(extents[1], extents[2])
    /\ del_req_set.num = 2
    /\ del_req_set.msg_meta[2].dest_offset = extents[2].raw.mem_pos

\* C17: a failed range get is surfaced.  meta_batch_get returns ERROR_MDHIM
\* when a batch of the reply chain, at any position, carries a negative
\* error or when no reply chain is returned at all, and success only when
\* there is a chain and every batch reports no error.
C17_GetFailureSurfaced ==
    (mop.name = "batch_get" /\ mop.rc # "none" /\ mop.req_cnt >= 1) =>
        (mop.rc = "ERROR_MDHIM" <=> (mop.nochain \/ mop.failed))

\* What the loop does surface: a negative error in any batch.
FailedBatchSurfaced ==
    (mop.name = "batch_get" /\ mop.rc # "none") =>
        (mop.rc = "ERROR_MDHIM" <=> mop.failed)

\* The outcomes of meta_batch_get(req) made by thread t on its own.
SerialResults(t, req) ==
    UNION {batch_get_result(reply, RequesterOf(t)) :
              reply \in GetReplies(mdhim_range(extents,
                                               batch_get_keys(<<req>>, 1)))}

\* C18: when meta_batch_get calls run concurrently on different threads,
\* each issues the range get with exactly its own probe keys and returns
\* bindings and a return code that the call made on its own could have
\* returned.
C18_OwnKeysOwnBindings ==
    \A t \in Threads :
        pc[t] = "done" =>
            /\ local[t].issued = batch_get_keys(<<local[t].req>>, 1)
            /\ \E o \in SerialResults(t, local[t].req) :
                  /\ o.del_req_set.msg_meta = local[t].msg_meta
                  /\ o.rc = local[t].rc

\* The same for a call during which no other thread was inside a call.
AloneOwnKeysOwnBindings ==
    \A t \in Threads :
        (pc[t] = "done" /\ \A u \in Threads \ {t} : pc[u] = "idle")
        => /\ local[t].issued = batch_get_keys(<<local[t].req>>, 1)
           /\ \E o \in SerialResults(t, local[t].req) :
                 /\ o.del_req_set.msg_meta = local[t].msg_meta
                 /\ o.rc = local[t].rc

\* (fid, offset) of a before that of b, fid first.
LexLess(a, b) == a.fid < b.fid \/ (a.fid = b.fid /\ a.offset < b.offset)

\* C19: unifycr_key_compare is the lexicographic order on (fid, offset):
\* negative iff a is before b, 0 iff both fields are equal, positive
\* otherwise; compare(a, b) = -compare(b, a); and before is transitive.
C19_KeyCompareLexicographic ==
    cmp_ret # <<>> =>
        /\ \A i, j \in 1 .. NKeys :
              LET a == cmp_keys[i]
                  b == cmp_keys[j]
              IN  /\ cmp_ret[i][j] < 0 <=> LexLess(a, b)
                  /\ cmp_ret[i][j] = 0 <=> (a.fid = b.fid
                                            /\ a.offset = b.offset)
                  /\ cmp_ret[i][j] > 0 <=> LexLess(b, a)
                  /\ cmp_ret[i][j] = 0 - cmp_ret[j][i]
        /\ \A i, j, k \in 1 .. NKeys :
              (cmp_ret[i][j] < 0 /\ cmp_ret[j][k] < 0) => cmp_ret[i][k] < 0

\* Three keys compared of which the first has the smaller fid and the
\* larger offset, and the third comes after the second.
C19_Witness ==
    /\ cmp_ret # <<>>
    /\ cmp_keys[1].fid < cmp_keys[2].fid
    /\ cmp_keys[1].offset > cmp_keys[2].offset
    /\ cmp_ret[1][2] < 0
    /\ cmp_ret[2][3] < 0
    /\ cmp_ret[1][3] < 0

\* C20: when the value the attribute index holds for a gfid is the record
\* of the latest unifycr_set_file_attribute call for it and that call
\* returned success, a unifycr_get_file_attribute of the gfid that the
\* store answers returns success with the gfid, fid, file_attr and
\* filename of that record; it returns an error only when the store does
\* not answer the get.
C20_AttrRoundTrip ==
    \A g \in Gfids :
        (/\ mop.name = "get_attr"
         /\ mop.gfid = g
         /\ fattrs[g].shape = "unifycr_file_attr_t"
         /\ fattrs[g].acked)
        => \/ ~mop.answered /\ mop.rc = "ERROR_MDHIM"
           \/ /\ mop.answered
              /\ mop.rc = "OK"
              /\ attr_val.gfid = g
              /\ attr_val.gfid = fattrs[g].gfid
              /\ attr_val.fid = fattrs[g].fid
              /\ attr_val.file_attr = fattrs[g].file_attr
              /\ attr_val.filename = fattrs[g].filename

\* unifycr_set_file_attribute stores its record exactly when the store
\* acknowledges the put, and returns success exactly then.
SetAttrStores ==
    [][\A f \in AttrRecs :
          (mop'.name = "set_attr" /\ mop'.rc = "OK"
           /\ SetAttr(f, <<0>>, TRUE))
          => fattrs'[f.gfid] = set_attr_value(f, TRUE)]_vars

\* A get that returned success with the record of a successful set whose
\* fid differs from its gfid, after the flush stored a value for the other
\* gfid.
C20_Witness ==
    /\ mop.name = "get_attr"
    /\ mop.rc = "OK"
    /\ fattrs[mop.gfid].shape = "unifycr_file_attr_t"
    /\ fattrs[mop.gfid].acked
    /\ attr_val.fid # attr_val.gfid
    /\ attr_val.filename = "b"
    /\ \E g \in Gfids : fattrs[g].shape = "fattr_val_t"

\* C21: every value of the attribute index has the record shape (gfid,
\* fid, file_attr, filename) whichever operation stored it, so that a
\* unifycr_get_file_attribute of a gfid whose entry a flush stored returns
\* success with the gfid, fid, file_attr and filename of that entry.
C21_AttrValueShape ==
    /\ \A g \in Gfids :
          fattrs[g].shape # "none" => fattrs[g].shape = "unifycr_file_attr_t"
    /\ \A g \in Gfids :
          (/\ mop.name = "get_attr"
           /\ mop.gfid = g
           /\ mop.answered
           /\ fattrs[g].shape = "fattr_val_t")
          => /\ mop.rc = "OK"
             /\ \E i \in 1 .. Len(attr_region) :
                   /\ attr_region[i].gfid = g
                   /\ attr_val = attr_region[i]

\* What does hold: the value a flush stores carries the file name and the
\* stat record of an entry of the attribute region with that gfid.
FlushedAttrKeepsNameAndStat ==
    \A g \in Gfids :
        fattrs[g].shape = "fattr_val_t"
        => \E i \in 1 .. Len(attr_region) :
              /\ attr_region[i].gfid = g
              /\ attr_region[i].filename = fattrs[g].fname
              /\ attr_region[i].file_attr = fattrs[g].file_attr

Enclosing(T, start, end) == {n \in T : n.start < start /\ end < n.end}

\* C24: when a successful add(s, e, p) lands strictly inside a segment
\* O = [os, oe, op], O is replaced by exactly [os, s-1, op] and
\* [e+1, oe, op + (e+1-os)] with [s, e, p] between them, no other segment
\* changes, and count grows by 2.
C24_Split ==
    [][(op'.name = "add" /\ op'.rc = "OK")
       => \A O \in Enclosing(head, op'.start, op'.end) :
             /\ head' = (head \ {O})
                        \cup {seg_tree_node_alloc(O.start, op'.start - 1,
                                                  O.ptr),
                              seg_tree_node_alloc(op'.start, op'.end,
                                                  op'.ptr),
                              seg_tree_node_alloc(
                                  op'.end + 1, O.end,
                                  Wrap(O.ptr + (op'.end + 1 - O.start)))}
             /\ count' = count + 2]_vars

\* An add has split one of two segments: the tree holds the two remainders
\* around the new segment and the other segment, and count grew by 2.
C24_Witness ==
    /\ op.name = "add" /\ Succeeded
    /\ count = op.count0 + 2
    /\ Cardinality(head) = 4
    /\ \E l \in head, r \in head :
          /\ l.end + 1 = op.start
          /\ r.start = op.end + 1
          /\ r.ptr = Wrap(l.ptr + (r.start - l.start))
          /\ l.ptr # op.ptr

\* The segments of T that share a byte with [start, end].
Touching(T, start, end) == {n \in T : n.start <= end /\ start <= n.end}

\* C25: when a successful add(s, e, p) overlaps only one end of a segment
\* O = [os, oe, op], O is replaced by exactly one remainder that keeps
\* O's mapping: [os, s-1, op] if os < s <= oe <= e, and
\* [e+1, oe, op + (e+1-os)] if s <= os <= e < oe.
C25_OneSidedTrim ==
    [][(op'.name = "add" /\ op'.rc = "OK")
       => LET new == seg_tree_node_alloc(op'.start, op'.end, op'.ptr) IN
          \A O \in head :
             /\ (O.start < op'.start /\ op'.start <= O.end
                 /\ O.end <= op'.end)
                => LET rem == seg_tree_node_alloc(O.start, op'.start - 1,
                                                  O.ptr)
                   IN  /\ O \notin head'
                       /\ Touching(head', O.start, O.end) = {rem, new}
             /\ (op'.start <= O.start /\ O.start <= op'.end
                 /\ op'.end < O.end)
                => LET rem == seg_tree_node_alloc(
                                  op'.end + 1, O.end,
                                  Wrap(O.ptr + (op'.end + 1 - O.start)))
                   IN  /\ O \notin head'
                       /\ Touching(head', O.start, O.end) = {rem, new}]_vars

\* An add between two segments has cut the front of its right neighbour:
\* the remainder's pointer is one no add was given, the left neighbour
\* keeps its pointer, and count grew by 1.
C25_Witness ==
    /\ op.name = "add" /\ Succeeded
    /\ count = op.count0 + 1
    /\ Cardinality(head) = 3
    /\ op.start < op.end
    /\ \E l \in head, r \in head :
          /\ l.end + 1 = op.start
          /\ r.start = op.end + 1
          /\ l.ptr = 0
          /\ r.ptr \notin Ptrs

\* C26: a successful add(s, e, p) removes every segment O with s <= os and
\* oe <= e, however many there are; when it covers k segments and overlaps
\* no other, count becomes the old count - k + 1 and max stays when e does
\* not exceed it.
C26_CompleteOverwrite ==
    [][(op'.name = "add" /\ op'.rc = "OK")
       => LET new == seg_tree_node_alloc(op'.start, op'.end, op'.ptr)
              covered == Covered(head, op'.start, op'.end)
          IN  /\ covered \cap head' \subseteq {new}
              /\ Touching(head, op'.start, op'.end) = covered
                 => /\ head' = (head \ covered) \cup {new}
                    /\ count' = count - Cardinality(covered) + 1
                    /\ op'.end <= max => max' = max]_vars

\* An add has replaced two segments by one that does not end beyond max.
C26_Witness ==
    /\ op.name = "add" /\ Succeeded
    /\ op.count0 = 2
    /\ count = 1
    /\ head = {seg_tree_node_alloc(op.start, op.end, op.ptr)}
    /\ op.end = max

\* C27: a successful add(s, e, p) whose range shares no byte with any
\* segment, adjacent with contiguous pointers or not, leaves every segment
\* as it was, merges nothing, and raises count by exactly 1.
C27_DisjointAddFrame ==
    [][(/\ op'.name = "add"
        /\ op'.rc = "OK"
        /\ Touching(head, op'.start, op'.end) = {})
       => /\ head' = head \cup {seg_tree_node_alloc(op'.start, op'.end,
                                                    op'.ptr)}
          /\ Cardinality(head') = Cardinality(head) + 1
          /\ count' = count + 1]_vars

\* Three adds, each starting where the one before ended and continuing its
\* pointers, have left three segments.
C27_Witness ==
    /\ op.name = "add" /\ Succeeded
    /\ nadds = 3
    /\ count = 3
    /\ op.count0 = 2
    /\ Cardinality(head) = 3
    /\ \A n \in head :
          n.start = 0 \/ \E l \in head :
                            /\ l.end + 1 = n.start
                            /\ n.ptr = Wrap(l.ptr + (n.start - l.start))

\* C28: a one-byte segment [k, k, p] is valid, and in every order of
\* adding [k, k, p], [k-1, k, q] and [k, k+1, r] the tree is
\* non-overlapping after each add, every byte of k-1, k, k+1 written so far
\* is mapped by the last add that covered it, and count is the number of
\* segments; [k-1, k, q] then [k, k, p] gives [k-1, k-1, q] and [k, k, p],
\* and [k, k+1, r] then [k, k, p] gives [k, k, p] and [k+1, k+1, r+1].
C28_SingleByteBoundary ==
    boundary # <<>> =>
        LET k == boundary.k IN
        /\ op.rc = "OK"
        /\ NonOverlapping(head)
        /\ count = Cardinality(head)
        /\ \A x \in Offsets :
              IF written[x] = -1
              THEN Covering(head, x) = {}
              ELSE \E n \in head :
                      /\ Covering(head, x) = {n}
                      /\ Physical(n, x) = written[x]
        /\ boundary.done = <<1>> => head = {BoundarySeg(1)}
        /\ boundary.done = <<2, 1>>
           => head = {seg_tree_node_alloc(k - 1, k - 1, boundary.q),
                      BoundarySeg(1)}
        /\ boundary.done = <<3, 1>>
           => head = {BoundarySeg(1),
                      seg_tree_node_alloc(k + 1, k + 1,
                                          Wrap(boundary.r + 1))}
        /\ Len(boundary.done) = 3
           => \A x \in k - 1 .. k + 1 : written[x] # -1

\* The one-byte segment was added last, over the two others that both
\* cover byte k: three segments, the right one with an advanced pointer.
C28_Witness ==
    /\ boundary # <<>>
    /\ boundary.done = <<2, 3, 1>>
    /\ op.rc = "OK"
    /\ count = 3
    /\ BoundarySeg(1) \in head
    /\ seg_tree_node_alloc(boundary.k + 1, boundary.k + 1,
                           Wrap(boundary.r + 1)) \in head

\* C29: every call of add, clear, count and max releases the write lock
\* before it returns, on every return path: the thread that holds the
\* write lock is inside the body of its call, never back at its caller or
\* waiting for the lock.
C29_LockReleasedOnReturn ==
    wrholder # 0 => pc[wrholder] \notin {"idle", "wrlock", "rdlock"}

\* A write lock whose holder has returned is never released: every later
\* call that takes the lock, the holder's own included, waits forever.
LeakedLockStaysHeld ==
    [][(wrholder # 0 /\ pc[wrholder] \in {"idle", "wrlock", "rdlock"})
       => (wrholder' = wrholder /\ rwlock' = "wrlocked")]_vars

\* clear, count and max, and the add that returns 0, do release the lock.
OtherReturnsRelease ==
    [][\A t \in Threads :
          (pc'[t] = "idle" /\ pc[t] # "idle" /\ wrholder' = t)
          => (local'[t].name = "add" /\ local'[t].rc = "ENOMEM")]_vars

\* C30: with offsets taken as unsigned integers of the machine's width,
\* non-overlap and count consistency also hold when a segment ends at the
\* largest offset MAX: a successful add on a consistent tree that holds
\* such a segment leaves the tree non-overlapping with count equal to the
\* number of segments; add(0, e, q), e < MAX, on the tree that holds only
\* [0, MAX, p] gives exactly [0, e, q] and [e+1, MAX, p+e+1] and count = 2.
C30_TopOfRange ==
    [][(/\ op'.name = "add"
        /\ op'.rc = "OK"
        /\ count = Cardinality(head)
        /\ \E n \in head : n.end = MaxOffset)
       => /\ NonOverlapping(head')
          /\ count' = Cardinality(head')
          /\ \A p \in Ptrs :
                (/\ head = {seg_tree_node_alloc(0, MaxOffset, p)}
                 /\ op'.start = 0
                 /\ op'.end < MaxOffset)
                => /\ head' = {seg_tree_node_alloc(0, op'.end, op'.ptr),
                               seg_tree_node_alloc(
                                   op'.end + 1, MaxOffset,
                                   Wrap(p + op'.end + 1))}
                   /\ count' = 2]_vars

\* The segments are as stated also at the top of the range; count is
\* never below the number of segments.
TopOfRangeSegments ==
    /\ [](Succeeded => (NonOverlapping(head) /\ count >= Cardinality(head)))
    /\ [][\A p \in Ptrs :
             (/\ op'.name = "add"
              /\ op'.rc = "OK"
              /\ head = {seg_tree_node_alloc(0, MaxOffset, p)}
              /\ op'.start = 0
              /\ op'.end < MaxOffset)
             => head' = {seg_tree_node_alloc(0, op'.end, op'.ptr),
                         seg_tree_node_alloc(op'.end + 1, MaxOffset,
                                             Wrap(p + op'.end + 1))}]_vars

\* The probe keys of a batch: (fid, off) and (fid, off+len-1) for each
\* request, in request order.
ProbeKeys(reqs, keys) ==
    /\ Len(keys) = 2 * Len(reqs)
    /\ \A i \in 1 .. Len(reqs) :
          /\ keys[2 * i - 1] = [fid |-> reqs[i].src_fid,
                                offset |-> reqs[i].offset]
          /\ keys[2 * i] = [fid |-> reqs[i].src_fid,
                            offset |-> reqs[i].offset + reqs[i].length - 1]

\* C31: for a batch of req_cnt requests meta_batch_get issues one range
\* get with exactly 2*req_cnt keys, (fid, off) and (fid, off+len-1) for
\* each request in request order, against the extent index.
C31_ProbeKeys ==
    mop.name = "batch_get"
    => /\ 2 * mop.req_cnt <= MAX_META_PER_SEND
       /\ mop.req_cnt = Len(mop.reqs)
       /\ ProbeKeys(mop.reqs, mop.issued)
       /\ mop.index = 0

\* What does hold: a batch whose keys fit the key buffer is probed as
\* stated, and the keys the loop computes are the stated ones for every
\* batch.
ProbeKeysWithinBuffer ==
    /\ (mop.name = "batch_get" /\ 2 * mop.req_cnt <= MAX_META_PER_SEND)
       => /\ mop.req_cnt = Len(mop.reqs)
          /\ ProbeKeys(mop.reqs, mop.issued)
          /\ mop.index = 0
    /\ \A reqs \in ReqBatches :
          ProbeKeys(reqs, batch_get_keys(reqs, Len(reqs)))

\* C32: for every outcome of the range get, meta_batch_get writes bindings
\* only at indices 0 .. MAX_META_PER_SEND-1 of del_req_set->msg_meta, and
\* del_req_set->num never exceeds MAX_META_PER_SEND, even when the store
\* returns more matching pairs than that.  (Stated for batches whose probe
\* keys fit the key buffer, so that the call reaches the reply loop.)
C32_BindingArrayBound ==
    (mop.name = "batch_get" /\ 2 * mop.req_cnt <= MAX_META_PER_SEND)
    => /\ mop.fault = "none"
       /\ Len(del_req_set.msg_meta) <= MAX_META_PER_SEND
       /\ del_req_set.num <= MAX_META_PER_SEND

\* What does hold: the bindings stay inside the array when the store
\* holds at most MAX_META_PER_SEND pairs in the probed ranges.
BindingsWithinArrayForFewPairs ==
    (/\ mop.name = "batch_get"
     /\ 2 * mop.req_cnt <= MAX_META_PER_SEND
     /\ Len(mdhim_range(extents, mop.issued)) <= MAX_META_PER_SEND)
    => /\ mop.fault = "none"
       /\ Len(del_req_set.msg_meta) <= MAX_META_PER_SEND
       /\ del_req_set.num <= MAX_META_PER_SEND

\* meta_batch_get went wrong while it wrote the probe keys: it made no
\* range get with them.
KeyFault == mop.fault # "none" /\ "issued" \notin DOMAIN mop

\* C33: every index written into the key/value length arrays
\* (MAX_META_PER_SEND slots) stays below MAX_META_PER_SEND: in
\* meta_batch_get for every req_cnt <= MAX_META_PER_SEND, and in
\* meta_process_fsync for every num_entries of the client's index header.
C33_KeyBufferBound ==
    /\ (mop.name = "batch_get" /\ mop.req_cnt <= MAX_META_PER_SEND)
       => /\ mop.slots - 1 < MAX_META_PER_SEND
          /\ ~KeyFault
    /\ mop.name = "fsync"
       => /\ mop.slots - 1 < MAX_META_PER_SEND
          /\ mop.fault = "none"
             \/ Len(attr_region) > MAX_FILE_CNT_PER_NODE

\* What does hold: the writes stay inside the arrays for batches of at
\* most MAX_META_PER_SEND / 2 requests and for flushes of at most
\* MAX_META_PER_SEND entries, and then the key arrays cause no fault.
KeyBufferBoundForSmallCalls ==
    /\ (mop.name = "batch_get" /\ 2 * mop.req_cnt <= MAX_META_PER_SEND)
       => /\ mop.slots - 1 < MAX_META_PER_SEND
          /\ ~KeyFault
    /\ (/\ mop.name = "fsync"
        /\ Len(region) <= MAX_META_PER_SEND
        /\ Len(attr_region) <= MAX_FILE_CNT_PER_NODE)
       => /\ mop.slots - 1 < MAX_META_PER_SEND
          /\ mop.fault = "none"

\* Each of the two calls overruns the key arrays on its own.
BatchGetKeysWithinBuffer ==
    (mop.name = "batch_get" /\ mop.req_cnt <= MAX_META_PER_SEND)
    => mop.slots <= MAX_META_PER_SEND

FsyncKeysWithinBuffer ==
    mop.name = "fsync" => mop.slots <= MAX_META_PER_SEND

\* A unifycr_get_file_extents that ran to its end on a range get the store
\* answered without error.
ExtentsGot ==
    /\ mop.name = "get_extents"
    /\ mop.fault = "none"
    /\ GetOK(mop.reply)

\* The pairs of the store in the range of the last unifycr_get_file_extents.
ExtentsInRange == mdhim_range(extents, mop.keys)

\* C34: unifycr_get_file_extents returns every stored (key, value) pair
\* whose key falls in the supplied ranges, across all batches of the reply
\* chain: each returned entry has the key (fid, offset) and the addr that
\* unifycr_set_file_extents stored, and *num_values is the number of pairs
\* returned.
C34_ExtentsReturned ==
    ExtentsGot
    => /\ mop.rc = "OK"
       /\ Len(mop.keyval) = Len(ExtentsInRange)
       /\ \A i \in 1 .. Len(ExtentsInRange) :
             /\ mop.keyval[i].key = ExtentsInRange[i].key
             /\ mop.keyval[i].val.addr = ExtentsInRange[i].val.addr
       /\ mop.num_values = Len(ExtentsInRange)

\* The three parts of C34, each on its own: entries of all batches are
\* returned; a returned entry has the addr that was stored; *num_values
\* counts the returned pairs.
ExtentsOfAllBatchesReturned ==
    ExtentsGot
    => [i \in 1 .. Len(mop.keyval) |-> mop.keyval[i].key]
       = [i \in 1 .. Len(ExtentsInRange) |-> ExtentsInRange[i].key]

ExtentAddrReturned ==
    ExtentsGot
    => \A i \in 1 .. Len(mop.keyval) :
          \E j \in 1 .. Len(ExtentsInRange) :
             /\ mop.keyval[i].key = ExtentsInRange[j].key
             /\ mop.keyval[i].val.addr = ExtentsInRange[j].val.addr

ExtentNumValuesCountsPairs ==
    ExtentsGot => mop.num_values = Len(mop.keyval)

\* What does hold: the call returns the pairs of the last reply of the
\* chain, with their keys, delegator and rank and with the stored len in
\* addr, and *num_values is the number of replies.
ExtentsOfLastReplyReturned ==
    ExtentsGot
    => LET last == mop.reply[Len(mop.reply)].pairs
       IN  /\ mop.rc = "OK"
           /\ mop.num_values = Len(mop.reply)
           /\ Len(mop.keyval) = Len(last)
           /\ \A i \in 1 .. Len(last) :
                 /\ mop.keyval[i].key = last[i].key
                 /\ mop.keyval[i].val.addr = last[i].val.len
                 /\ mop.keyval[i].val.delegator_id = last[i].val.delegator_id
                 /\ mop.keyval[i].val.app_rank_id = last[i].val.app_rank_id

\* The store calls thread t has made were made on the indexes its call
\* selected for them.
OwnIndex(t) ==
    local[t].name \in DOMAIN IndexCalls
    => \A i \in 1 .. Len(local[t].delivered) :
          local[t].delivered[i] = IndexCalls[local[t].name][i]

\* C35: for any interleaving of meta_process_fsync,
\* unifycr_set_file_extents, unifycr_set_file_attribute(s) and
\* unifycr_get_file_attribute on different threads, every extent put is
\* delivered to the extent index and every attribute put (and get) to the
\* attribute index: no store call is made on the other index because
\* another thread assigned md->primary_index in between.
C35_IndexSelection ==
    \A t \in Threads : OwnIndex(t)

\* What does hold: a call made while no other thread is inside one of
\* the calls acts on the indexes it selected.
AloneOwnIndex ==
    \A t \in Threads :
       (\A u \in Threads \ {t} : local[u].name = "none") => OwnIndex(t)

\* Each direction on its own: a finished unifycr_set_file_extents put on
\* the extent index, a finished attribute put on the attribute index.
ExtentPutOnExtentIndex ==
    \A t \in Threads :
       (local[t].name = "set_extents" /\ pc[t] = "done")
       => local[t].delivered = <<0>>

AttrPutOnAttrIndex ==
    \A t \in Threads :
       (local[t].name \in {"set_attr", "set_attrs"} /\ pc[t] = "done")
       => local[t].delivered = <<1>>

\* The call of get_non_overlapping_range has been made, on two ranges
\* that intersect.
RangeCalled ==
    /\ range_call # <<>>
    /\ range_call.rc # -1
    /\ range_call.start1 <= range_call.end2
    /\ range_call.start2 <= range_call.end1

\* The offsets of [start1, end1] outside [start2, end2], and the first
\* run of them.
RangeOutside ==
    {x \in range_call.start1 .. range_call.end1 :
        x < range_call.start2 \/ x > range_call.end2}

RangeFirstOutside ==
    LET lo == CHOOSE x \in RangeOutside : \A y \in RangeOutside : x <= y
    IN  {x \in RangeOutside : \A y \in lo .. x : y \in RangeOutside}

\* C36: on every existing range [s1,e1] and new range [s2,e2] that
\* intersect, get_non_overlapping_range returns 1 exactly when [s1,e1] is
\* contained in [s2,e2], and otherwise returns 0 with new_start / new_end
\* written to the first (lowest) part of [s1,e1] outside [s2,e2], with
\* s1 <= new_start <= new_end <= e1; what it returns with rc 0 does not
\* depend on what new_start / new_end held before the call.
C36_NonOverlappingRangeTotal ==
    RangeCalled
    => /\ range_call.rc \in {0, 1}
       /\ range_call.rc = 1
          <=> /\ range_call.start1 >= range_call.start2
              /\ range_call.end1 <= range_call.end2
       /\ range_call.rc = 1 <=> RangeOutside = {}
       /\ range_call.rc = 0
          => /\ range_call.start1 <= range_call.new_start
             /\ range_call.new_start <= range_call.new_end
             /\ range_call.new_end <= range_call.end1
             /\ range_call.new_start .. range_call.new_end
                = RangeFirstOutside
             /\ \A a \in Offsets, b \in Offsets :
                   LET r == get_non_overlapping_range(
                                range_call.start1, range_call.end1,
                                range_call.start2, range_call.end2, a, b)
                   IN  /\ r.new_start = range_call.new_start
                       /\ r.new_end = range_call.new_end

\* The call was made on an existing range that starts after the start of
\* the new one and ends inside it, and returned 1.
C36_Witness ==
    /\ RangeCalled
    /\ range_call.start1 > range_call.start2
    /\ range_call.end1 <= range_call.end2
    /\ range_call.rc = 1

\* The call was made on an existing range that reaches past both ends of
\* the new one, and returned the part below it.
RangeTwoPartsReached ==
    /\ RangeCalled
    /\ range_call.start1 < range_call.start2
    /\ range_call.end1 > range_call.end2
    /\ range_call.rc = 0
    /\ range_call.new_start = range_call.start1
    /\ range_call.new_end = range_call.start2 - 1

====
